---- MODULE Spec2Model ----
(***************************************************************************)
(* State-machine model of the advance-report bot: the operation wizard     *)
(* (bot/fsm.py, bot/handlers.py) and the spreadsheet ledger                 *)
(* (bot/sheets_client.py, bot/rental_models.py, bot/utils.py).              *)
(*                                                                         *)
(* Texts (user messages and spreadsheet cells) are modelled by their       *)
(* lexical shape, which is all the code ever inspects:                      *)
(*   Str(s)        a text that is neither a numeral nor of the form        *)
(*                 dd.mm.yyyy (Str("") is the empty cell / empty string)   *)
(*   Num(v)        a decimal numeral whose value is v                      *)
(*   DateT(d,m,y)  a text of the form dd.mm.yyyy (not necessarily a        *)
(*                 calendar date: 31.02.2026 is DateT(31, 2, 2026))        *)
(*   NanT          the text "nan", which float() reads as not-a-number     *)
(* Amounts are whole numbers of currency units, on which the float         *)
(* arithmetic of the code is exact; rounding of fractional amounts is not  *)
(* modelled.                                                               *)
(* Optional values are <<>> (None) or <<v>>.                                *)
(***************************************************************************)
EXTENDS Integers, Sequences, FiniteSets, TLC

VARIABLES
    user_states,    \* FSM.user_states: user id -> State
    user_contexts,  \* FSM.user_contexts: user id -> OperationContext
    user_data,      \* context.user_data["waiting_for_name"] per user
    users,          \* the Users sheet: user id -> row (or no row)
    sheets,         \* the employee sheets: sheet name -> sequence of data rows
    summary,        \* the monthly summary sheet: sequence of data rows
    audit,          \* the Audit_Log sheet: sequence of data rows
    rental,         \* the rental reference sheet: sequence of data rows
    reference,      \* the reference sheet of categories and types: data rows
    in_flight       \* the updates whose handler has started and not finished

vars == <<user_states, user_contexts, user_data, users, sheets, summary, audit,
          rental, reference, in_flight>>

----------------------------------------------------------------------------
(* Bounds of the model *)

\* Largest number of operations committed to a sheet that starts empty.
MaxRows == 3

\* Number of operations committed to the sheet of "Al" before the bot is started.
PriorRows == 1

----------------------------------------------------------------------------
(* Texts and optional values *)

None == <<>>
Some(x) == <<x>>

Str(s) == [k |-> "str", s |-> s]
Num(v) == [k |-> "num", v |-> v]
DateT(d, m, y) == [k |-> "date", d |-> d, m |-> m, y |-> y]
NanT == [k |-> "nan"]

EMPTY == Str("")

\* float("nan"): a value apart from every amount, told by float_leq only.
NaN == 0 - 1000000

\* Python a <= b on floats: false when either side is not-a-number.
float_leq(a, b) == a # NaN /\ b # NaN /\ a <= b

\* Python float(text) after the separators are stripped: the value, or None
\* for ValueError.
float(text) ==
    IF text.k = "num" THEN Some(text.v)
    ELSE IF text.k = "nan" THEN Some(NaN)
    ELSE None

\* day, month, year = map(int, text.split('.')): the three fields in the
\* order they are written, or None for ValueError.
split_date(text) == IF text.k = "date" THEN Some(<<text.d, text.m, text.y>>) ELSE None

\* Python tuple comparison a > b on (year, month, day) tuples.
TupleGt(a, b) ==
    \/ a[1] > b[1]
    \/ a[1] = b[1] /\ a[2] > b[2]
    \/ a[1] = b[1] /\ a[2] = b[2] /\ a[3] > b[3]

\* Python tuple comparison a >= b on (year, month, day) tuples.
TupleGeq(a, b) ==
    \/ a[1] > b[1]
    \/ a[1] = b[1] /\ a[2] > b[2]
    \/ a[1] = b[1] /\ a[2] = b[2] /\ a[3] >= b[3]

\* The (year, month, day) sort key built from a parsed date.
date_tuple(dmy) == <<dmy[3], dmy[2], dmy[1]>>

----------------------------------------------------------------------------
(* The employee sheet (ledger): SheetsClient.add_operation and get_balance *)

\* A data row of an employee sheet, by column: A date, B income, C expense,
\* D category, E type, F description, G balance formula, H address, I M/M.
\* G holds the row number written into the formula text (0: no formula).
row_data(op) ==
    [A |-> op.date,
     B |-> IF op.direction = "IN" THEN Num(op.amount) ELSE EMPTY,
     C |-> IF op.direction = "IN" THEN EMPTY ELSE Num(op.amount),
     D |-> op.category, E |-> op.type, F |-> op.description,
     G |-> 0, H |-> op.address, I |-> op.mm_number]

\* The scan of add_operation for the insertion point: k is the index of the
\* data row looked at (sheet row k + 1), insert_row the value found so far.
RECURSIVE scan_insert_row(_, _, _, _)
scan_insert_row(rows, op_date, k, insert_row) ==
    IF k > Len(rows) THEN insert_row
    ELSE IF rows[k].A = EMPTY THEN scan_insert_row(rows, op_date, k + 1, insert_row)
    ELSE LET parsed == split_date(rows[k].A) IN
         IF parsed = None
         THEN scan_insert_row(rows, op_date, k + 1, insert_row)
         ELSE IF TupleGeq(op_date, date_tuple(parsed[1]))
              THEN scan_insert_row(rows, op_date, k + 1, (k + 1) + 1)
              ELSE insert_row

\* An insertion point that ignores the dates: the row after the last one.
find_insert_row_append(rows, op_date) == Len(rows) + 2

\* An insertion point that ignores the dates: the first data row.
find_insert_row_front(rows, op_date) == 2

find_insert_row(rows, op_date) == scan_insert_row(rows, op_date, 1, 2)

\* Writing the values over sheet row index instead of inserting a row there.
update_row(rows, row, index) ==
    IF index - 1 <= Len(rows) THEN [rows EXCEPT ![index - 1] = row]
    ELSE Append(rows, row)

\* worksheet.insert_row(values, index): index is the sheet row (header = 1).
insert_row(rows, row, index) ==
    SubSeq(rows, 1, index - 2) \o <<row>> \o SubSeq(rows, index - 1, Len(rows))

\* Every data row gets the formula text built with its own row number.
recalculate_balance_formulas(rows) ==
    [k \in 1..Len(rows) |-> [rows[k] EXCEPT !.G = k + 1]]

\* The number a cell shows inside a formula (an empty or non-numeric cell
\* counts as 0 here).
cell_number(text) == IF float(text) = None THEN 0 ELSE float(text)[1]

\* The value the spreadsheet computes for the formula in column G of data
\* row k:  =IF(ROW()=n; IF(Bn<>""; Bn; -Cn);
\*             INDIRECT("G"&ROW()-1) + IF(Bn<>""; Bn; 0) - IF(Cn<>""; Cn; 0))
\* where n is the number written into the text and ROW() the row it sits in.
RECURSIVE balance_cell(_, _)
balance_cell(rows, k) ==
    LET n == rows[k].G
        ROW == k + 1
        B == rows[k].B
        C == rows[k].C
    IN  IF n = 0 THEN 0
        ELSE IF ROW = n
             THEN (IF B # EMPTY THEN cell_number(B) ELSE 0 - cell_number(C))
             ELSE (IF k = 1 THEN 0 ELSE balance_cell(rows, k - 1))
                  + (IF B # EMPTY THEN cell_number(B) ELSE 0)
                  - (IF C # EMPTY THEN cell_number(C) ELSE 0)

\* add_operation up to the balance formulas, on the rows of one sheet.
\* None: an exception before the insertion (the date does not parse).
add_operation_rows(rows, op) ==
    LET parsed == split_date(op.date) IN
    IF parsed = None THEN None
    ELSE Some(recalculate_balance_formulas(
            insert_row(rows, row_data(op),
                       find_insert_row(rows, date_tuple(parsed[1])))))

\* A reading of the rows that ends at the first amount cell that is no number
\* and returns what it has collected up to there.
RECURSIVE balance_operations_stopping(_, _)
balance_operations_stopping(rows, k) ==
    IF k > Len(rows) THEN <<>>
    ELSE IF \/ (rows[k].B # EMPTY /\ float(rows[k].B) = None)
            \/ (rows[k].C # EMPTY /\ float(rows[k].C) = None) THEN <<>>
    ELSE LET rest == balance_operations_stopping(rows, k + 1) IN
         IF rows[k].A = EMPTY \/ split_date(rows[k].A) = None THEN rest
         ELSE <<[date   |-> date_tuple(split_date(rows[k].A)[1]),
                 income |-> IF rows[k].B = EMPTY THEN 0 ELSE cell_number(rows[k].B),
                 expense |-> IF rows[k].C = EMPTY THEN 0 ELSE cell_number(rows[k].C),
                 row_num |-> k + 1]>> \o rest

\* The operations get_balance collects: rows with a date that parses.
RECURSIVE balance_operations(_, _)
balance_operations(rows, k) ==
    IF k > Len(rows) THEN <<>>
    ELSE LET rest == balance_operations(rows, k + 1) IN
         IF rows[k].A = EMPTY \/ split_date(rows[k].A) = None THEN rest
         ELSE <<[date   |-> date_tuple(split_date(rows[k].A)[1]),
                 income |-> IF rows[k].B = EMPTY THEN 0 ELSE cell_number(rows[k].B),
                 expense |-> IF rows[k].C = EMPTY THEN 0 ELSE cell_number(rows[k].C),
                 row_num |-> k + 1]>> \o rest

\* list.sort(key=date): a stable sort, here by insertion.
RECURSIVE insert_sorted(_, _)
insert_sorted(sorted, op) ==
    IF sorted = <<>> THEN <<op>>
    ELSE IF TupleGeq(op.date, sorted[Len(sorted)].date)
         THEN Append(sorted, op)
         ELSE Append(insert_sorted(SubSeq(sorted, 1, Len(sorted) - 1), op),
                     sorted[Len(sorted)])

RECURSIVE sort_by_date(_, _)
sort_by_date(ops, k) ==
    IF k = 0 THEN <<>> ELSE insert_sorted(sort_by_date(ops, k - 1), ops[k])

\* The accumulation of get_balance with the expenses left out.
RECURSIVE sum_operations_income(_, _)
sum_operations_income(ops, k) ==
    IF k = 0 THEN 0 ELSE sum_operations_income(ops, k - 1) + ops[k].income

RECURSIVE sum_operations(_, _)
sum_operations(ops, k) ==
    IF k = 0 THEN 0
    ELSE sum_operations(ops, k - 1) + (ops[k].income - ops[k].expense)

\* get_balance on the rows of an existing sheet.
get_balance_rows(rows) ==
    LET ops == balance_operations(rows, 1)
        sorted == sort_by_date(ops, Len(ops))
    IN  sum_operations(sorted, Len(sorted))

\* month_str = f"{month:02d}.{year}", kept as the pair it is printed from.
month_str(dmy) == <<dmy[2], dmy[3]>>

\* The totals of a month read from the monthly summary sheet instead of the
\* employee sheet.
get_monthly_summary_from_aggregate(rows, month) ==
    IF \E k \in 1..Len(summary) : summary[k].month = month
    THEN LET k == CHOOSE i \in 1..Len(summary) : summary[i].month = month
         IN  [income |-> summary[k].income, expense |-> summary[k].expense,
              net |-> summary[k].net]
    ELSE [income |-> 0, expense |-> 0, net |-> 0]

\* The loop of get_monthly_summary over the data rows from k on: the income
\* and the expense added up so far.
RECURSIVE monthly_totals(_, _, _, _)
monthly_totals(rows, month, k, acc) ==
    IF k > Len(rows) THEN acc
    ELSE IF rows[k].A = EMPTY \/ split_date(rows[k].A) = None
         THEN monthly_totals(rows, month, k + 1, acc)
    ELSE IF month_str(split_date(rows[k].A)[1]) # month
         THEN monthly_totals(rows, month, k + 1, acc)
    ELSE monthly_totals(rows, month, k + 1,
            [income |-> acc.income
                          + (IF rows[k].B # EMPTY /\ float(rows[k].B) # None
                             THEN float(rows[k].B)[1] ELSE 0),
             expense |-> acc.expense
                          + (IF rows[k].C # EMPTY /\ float(rows[k].C) # None
                             THEN float(rows[k].C)[1] ELSE 0)])

\* SheetsClient.get_monthly_summary on the rows of an existing sheet; month
\* is the (month, year) pair of the "MM.YYYY" text.
get_monthly_summary(rows, month) ==
    LET totals == monthly_totals(rows, month, 1, [income |-> 0, expense |-> 0])
    IN  [income |-> totals.income, expense |-> totals.expense,
         net |-> totals.income - totals.expense]

----------------------------------------------------------------------------
(* The monthly summary and audit sheets *)

\* Index of the first summary row for (employee, month), 0 if none.
RECURSIVE summary_row_index(_, _, _, _)
summary_row_index(rows, employee_name, month, k) ==
    IF k > Len(rows) THEN 0
    ELSE IF rows[k].employee = employee_name /\ rows[k].month = month THEN k
    ELSE summary_row_index(rows, employee_name, month, k + 1)

\* SheetsClient._update_monthly_summary on the summary rows.  On an existing
\* row an IN operation writes the income cell and then evaluates
\* new_income - new_expense with new_expense unbound: the exception is
\* swallowed and the net cell keeps its value.
update_monthly_summary(rows, employee_name, op) ==
    LET dmy == split_date(op.date)[1]
        month == month_str(dmy)
        k == summary_row_index(rows, employee_name, month, 1)
    IN  IF k # 0
        THEN IF op.direction = "IN"
             THEN [rows EXCEPT ![k].income = rows[k].income + op.amount]
             ELSE [rows EXCEPT ![k].expense = rows[k].expense + op.amount,
                               ![k].net = rows[k].income - (rows[k].expense + op.amount)]
        ELSE LET income == IF op.direction = "IN" THEN op.amount ELSE 0
                 expense == IF op.direction = "OUT" THEN op.amount ELSE 0
             IN  Append(rows, [employee |-> employee_name, month |-> month,
                               income |-> income, expense |-> expense,
                               net |-> income - expense])

\* SheetsClient.log_audit for an ADD_OPERATION.
log_audit_add(rows, employee_name, op) ==
    Append(rows, [user |-> employee_name, sheet |-> employee_name,
                  action |-> "ADD_OPERATION",
                  new_value |-> [direction |-> op.direction, amount |-> op.amount,
                                 category |-> op.category, type |-> op.type]])

----------------------------------------------------------------------------
(* Calendar arithmetic: bot/rental_models.py *)

IsLeap(y) == (y % 4 = 0 /\ y % 100 # 0) \/ y % 400 = 0

DaysInMonth(m, y) ==
    IF m = 2 THEN (IF IsLeap(y) THEN 29 ELSE 28)
    ELSE IF m \in {4, 6, 9, 11} THEN 30 ELSE 31

\* datetime(year, month, day) does not raise ValueError.
valid_calendar(dmy) ==
    /\ dmy[3] \in 1..9999
    /\ dmy[2] \in 1..12
    /\ dmy[1] \in 1..DaysInMonth(dmy[2], dmy[3])

\* parse_rental_date: the (day, month, year) of a calendar date, or None.  A
\* year below 100 is taken to be in the 2000s.
parse_rental_date(text) ==
    IF split_date(text) = None THEN None
    ELSE LET dmy == split_date(text)[1]
             year == IF dmy[3] < 100 THEN dmy[3] + 2000 ELSE dmy[3]
         IN  IF valid_calendar(<<dmy[1], dmy[2], year>>)
             THEN Some(<<dmy[1], dmy[2], year>>) ELSE None

\* date.strftime("%d.%m.%Y")
format_rental_date(dmy) == DateT(dmy[1], dmy[2], dmy[3])

next_day(dmy) ==
    IF dmy[1] < DaysInMonth(dmy[2], dmy[3]) THEN <<dmy[1] + 1, dmy[2], dmy[3]>>
    ELSE IF dmy[2] < 12 THEN <<1, dmy[2] + 1, dmy[3]>>
    ELSE <<1, 1, dmy[3] + 1>>

\* date + timedelta(days=days)
RECURSIVE plus_days(_, _)
plus_days(dmy, days) == IF days = 0 THEN dmy ELSE plus_days(next_day(dmy), days - 1)

\* add_days_to_date: now is the current date, used when the text does not parse.
add_days_to_date(date_str, days, now) ==
    LET date_obj == IF parse_rental_date(date_str) = None THEN now
                    ELSE parse_rental_date(date_str)[1]
    IN  format_rental_date(plus_days(date_obj, days))

\* The days a rental payment moves the next payment date by.
PAYMENT_PERIOD_DAYS == 30

----------------------------------------------------------------------------
(* The rental reference sheet and the reference sheet *)

\* Index of the first rental row for (address, M/M) at or after k, 0 if none.
RECURSIVE rental_row_index(_, _, _, _)
rental_row_index(rows, address, mm_number, k) ==
    IF k > Len(rows) THEN 0
    ELSE IF rows[k].address = address /\ rows[k].mm_number = mm_number THEN k
    ELSE rental_row_index(rows, address, mm_number, k + 1)

\* An update that writes the new date to every unit of the address.
update_rental_payment_date_address(rows, address, mm_number, payment_date, now) ==
    IF rental_row_index(rows, address, mm_number, 1) = 0
    THEN [ok |-> FALSE, rows |-> rows]
    ELSE [ok |-> TRUE,
          rows |-> [k \in 1..Len(rows) |->
                      IF rows[k].address = address
                      THEN [rows[k] EXCEPT !.next_payment_date =
                               add_days_to_date(payment_date, PAYMENT_PERIOD_DAYS, now)]
                      ELSE rows[k]]]

\* An update that also marks the unit as paid.
update_rental_payment_date_paid(rows, address, mm_number, payment_date, now) ==
    IF rental_row_index(rows, address, mm_number, 1) = 0
    THEN [ok |-> FALSE, rows |-> rows]
    ELSE [ok |-> TRUE,
          rows |-> [rows EXCEPT
                      ![rental_row_index(rows, address, mm_number, 1)] =
                          [@ EXCEPT !.next_payment_date =
                                        add_days_to_date(payment_date,
                                                         PAYMENT_PERIOD_DAYS, now),
                                    !.paid_this_month = Str("TRUE")]]]

\* SheetsClient.update_rental_payment_date: the rows after the update and the
\* value returned.
update_rental_payment_date(rows, address, mm_number, payment_date, now) ==
    LET k == rental_row_index(rows, address, mm_number, 1) IN
    IF k = 0 THEN [ok |-> FALSE, rows |-> rows]
    ELSE [ok |-> TRUE,
          rows |-> [rows EXCEPT ![k].next_payment_date =
                        add_days_to_date(payment_date, PAYMENT_PERIOD_DAYS, now)]]

\* SheetsClient.get_rental_payment_amount: the amount of the first matching
\* row whose amount cell parses, or None.
RECURSIVE get_rental_payment_amount(_, _, _, _)
get_rental_payment_amount(rows, address, mm_number, k) ==
    IF k > Len(rows) THEN None
    ELSE IF /\ rows[k].address = address /\ rows[k].mm_number = mm_number
            /\ rows[k].payment_amount # EMPTY
            /\ float(rows[k].payment_amount) # None
         THEN float(rows[k].payment_amount)
         ELSE get_rental_payment_amount(rows, address, mm_number, k + 1)

\* str.upper() == "TRUE" on the texts of the "paid" column.
upper_is_true(text) == text \in {Str("TRUE"), Str("True"), Str("true")}

\* SheetsClient.get_rental_objects_for_employee: the rows of the employee
\* that have a next payment date.  Its callers below build sets of the
\* result, so the order by date is left out.
get_rental_objects_for_employee(rows, employee_name) ==
    {rows[k] : k \in {i \in 1..Len(rows) :
                        /\ rows[i].responsible = employee_name
                        /\ rows[i].next_payment_date # EMPTY}}

\* SheetsClient.get_rental_addresses_for_employee
get_rental_addresses_for_employee(rows, employee_name) ==
    {obj.address : obj \in {o \in get_rental_objects_for_employee(rows, employee_name) :
                              o.address # ""}}

\* SheetsClient.get_rental_mm_for_address
get_rental_mm_for_address(rows, employee_name, address) ==
    {obj.mm_number : obj \in {o \in get_rental_objects_for_employee(rows, employee_name) :
                                o.address = address /\ o.mm_number # ""}}

\* SheetsClient.get_rental_mm_without_payments: the (address, M/M) pairs of
\* the employee that are not marked paid.
get_rental_mm_without_payments(rows, employee_name) ==
    {[address |-> rows[k].address, mm_number |-> rows[k].mm_number] :
        k \in {i \in 1..Len(rows) :
                 /\ rows[i].responsible = employee_name
                 /\ ~upper_is_true(rows[i].paid_this_month)
                 /\ rows[i].address # "" /\ rows[i].mm_number # ""}}

\* SheetsClient.get_types on the reference rows.
RECURSIVE reference_types(_, _, _, _)
reference_types(rows, direction, category, k) ==
    IF k > Len(rows) THEN <<>>
    ELSE (IF /\ rows[k].direction = direction /\ rows[k].category = category
             /\ rows[k].active /\ rows[k].type # ""
          THEN <<rows[k].type>> ELSE <<>>)
         \o reference_types(rows, direction, category, k + 1)

get_types(rows, direction, category) ==
    LET types == reference_types(rows, direction, category, 1)
        has_empty_type == \E k \in 1..Len(rows) :
            /\ rows[k].direction = direction /\ rows[k].category = category
            /\ rows[k].active /\ rows[k].type = ""
    IN  IF has_empty_type THEN Append(types, "")
        ELSE IF types = <<>> THEN <<"Prochee">> ELSE types

----------------------------------------------------------------------------
(* The wizard: bot/fsm.py.  A method of FSM on a user is an operator on    *)
(* that user's pair fc = [state, context].                                  *)

\* The reserved rental-income category.
RENTAL_CATEGORY == "Dohody ot arendy"
\* The type preferred for a rental payment.
RENTAL_DEFAULT_TYPE == "Perevod ot arendatora"

OperationContext ==
    [direction |-> None, date |-> None, amount |-> None, category |-> None,
     type |-> None, description |-> None, rental_address |-> None,
     rental_mm |-> None]

set_state(fc, state) == [fc EXCEPT !.state = state]

\* A reset of the state that keeps the context.
reset_state_only(fc) == [state |-> "IDLE", context |-> fc.context]

\* A reset of the context that keeps the state.
reset_context_only(fc) == [state |-> fc.state, context |-> OperationContext]

reset(fc) == [state |-> "IDLE", context |-> OperationContext]

start_operation(fc) == [state |-> "SELECT_OPERATION_TYPE", context |-> OperationContext]

set_direction(fc, direction) ==
    [state |-> "SELECT_DATE", context |-> [fc.context EXCEPT !.direction = Some(direction)]]

set_date(fc, date) ==
    [state |-> "INPUT_AMOUNT", context |-> [fc.context EXCEPT !.date = Some(date)]]

set_amount(fc, amount) ==
    [state |-> "SELECT_CATEGORY", context |-> [fc.context EXCEPT !.amount = Some(amount)]]

set_category(fc, category) ==
    [state |-> IF category = RENTAL_CATEGORY THEN "SELECT_RENTAL_ADDRESS" ELSE "SELECT_TYPE",
     context |-> [fc.context EXCEPT !.category = Some(category)]]

set_type(fc, type_name) ==
    [state |-> "INPUT_DESCRIPTION", context |-> [fc.context EXCEPT !.type = Some(type_name)]]

set_description(fc, description) ==
    [state |-> "CONFIRM", context |-> [fc.context EXCEPT !.description = Some(description)]]

skip_description(fc) ==
    [state |-> "CONFIRM", context |-> [fc.context EXCEPT !.description = Some(EMPTY)]]

set_rental_address(fc, address) ==
    [state |-> "SELECT_RENTAL_MM",
     context |-> [fc.context EXCEPT !.rental_address = Some(address)]]

set_rental_mm(fc, mm_number) ==
    [state |-> IF fc.context.category = Some(RENTAL_CATEGORY)
               THEN "INPUT_DESCRIPTION" ELSE "INPUT_RENTAL_AMOUNT",
     context |-> [fc.context EXCEPT !.rental_mm = Some(mm_number)]]

set_rental_amount(fc, amount) ==
    [state |-> "CONFIRM", context |-> [fc.context EXCEPT !.amount = Some(amount)]]

\* A go_back that moves to the previous state and clears no field.
go_back_state_only(fc) ==
    [fc EXCEPT !.state =
        CASE fc.state = "SELECT_DATE" -> "SELECT_OPERATION_TYPE"
          [] fc.state = "INPUT_AMOUNT" -> "SELECT_DATE"
          [] fc.state = "SELECT_CATEGORY" -> "INPUT_AMOUNT"
          [] fc.state = "SELECT_TYPE" -> "SELECT_CATEGORY"
          [] fc.state = "INPUT_DESCRIPTION" -> "SELECT_TYPE"
          [] fc.state = "CONFIRM" -> "INPUT_DESCRIPTION"
          [] fc.state = "SELECT_RENTAL_ADDRESS" -> "SELECT_CATEGORY"
          [] fc.state = "SELECT_RENTAL_MM" -> "SELECT_RENTAL_ADDRESS"
          [] fc.state = "INPUT_RENTAL_AMOUNT" -> "SELECT_RENTAL_MM"
          [] OTHER -> fc.state]

\* FSM.go_back: the pair after the call; go_back_moved is the value returned.
go_back(fc) ==
    CASE fc.state = "SELECT_OPERATION_TYPE" -> fc
      [] fc.state = "SELECT_DATE" ->
            [state |-> "SELECT_OPERATION_TYPE", context |-> [fc.context EXCEPT !.direction = None]]
      [] fc.state = "INPUT_AMOUNT" ->
            [state |-> "SELECT_DATE", context |-> [fc.context EXCEPT !.date = None]]
      [] fc.state = "SELECT_CATEGORY" ->
            [state |-> "INPUT_AMOUNT", context |-> [fc.context EXCEPT !.amount = None]]
      [] fc.state = "SELECT_TYPE" ->
            [state |-> "SELECT_CATEGORY", context |-> [fc.context EXCEPT !.category = None]]
      [] fc.state = "INPUT_DESCRIPTION" ->
            [state |-> "SELECT_TYPE", context |-> [fc.context EXCEPT !.type = None]]
      [] fc.state = "CONFIRM" ->
            [state |-> "INPUT_DESCRIPTION", context |-> [fc.context EXCEPT !.description = None]]
      [] fc.state = "SELECT_RENTAL_ADDRESS" ->
            [state |-> "SELECT_CATEGORY", context |-> [fc.context EXCEPT !.category = None]]
      [] fc.state = "SELECT_RENTAL_MM" ->
            [state |-> "SELECT_RENTAL_ADDRESS", context |-> [fc.context EXCEPT !.rental_address = None]]
      [] fc.state = "INPUT_RENTAL_AMOUNT" ->
            [state |-> "SELECT_RENTAL_MM", context |-> [fc.context EXCEPT !.rental_mm = None]]
      [] OTHER -> fc

\* A go_back that reports a move from every state but IDLE.
go_back_moved_unless_idle(fc) == fc.state # "IDLE"

go_back_moved(fc) ==
    fc.state \in {"SELECT_DATE", "INPUT_AMOUNT", "SELECT_CATEGORY", "SELECT_TYPE",
                  "INPUT_DESCRIPTION", "CONFIRM", "SELECT_RENTAL_ADDRESS",
                  "SELECT_RENTAL_MM", "INPUT_RENTAL_AMOUNT"}

\* Python truth of an optional string: set and not empty.
truthy(opt) == opt # None /\ opt # Some("")

\* FSM.get_operation_data: None, or Some(operation data).  An absent
\* "address" / "mm_number" key reads as "" (operation_data.get(key, "")).
get_operation_data(context) ==
    IF ~(truthy(context.direction) /\ context.date # None /\ context.date # Some(EMPTY)
         /\ context.amount # None)
    THEN None
    ELSE LET is_rental == truthy(context.rental_address) /\ truthy(context.rental_mm)
             category == IF truthy(context.category) THEN context.category[1]
                         ELSE IF is_rental THEN RENTAL_CATEGORY ELSE ""
             type_name == IF is_rental
                          THEN (IF truthy(context.type) THEN context.type[1]
                                ELSE context.rental_address[1] \o " " \o context.rental_mm[1])
                          ELSE (IF context.type # None THEN context.type[1] ELSE "")
         IN Some([date |-> context.date[1],
                  direction |-> context.direction[1],
                  amount |-> context.amount[1],
                  category |-> category,
                  type |-> type_name,
                  description |-> IF context.description = None THEN EMPTY
                                  ELSE context.description[1],
                  address |-> IF truthy(context.rental_address)
                              THEN context.rental_address[1] ELSE "",
                  mm_number |-> IF truthy(context.rental_mm)
                                THEN context.rental_mm[1] ELSE ""])

----------------------------------------------------------------------------
(* bot/handlers.py and SheetsClient, on the state *)

Users == {1, 2}

fc(u) == [state |-> user_states[u], context |-> user_contexts[u]]

\* The user's state and context become those of the pair r.
put(u, r) ==
    /\ user_states' = [user_states EXCEPT ![u] = r.state]
    /\ user_contexts' = [user_contexts EXCEPT ![u] = r.context]

\* len(text)
text_len(text) ==
    CASE text.k = "str" -> Len(text.s)
      [] text.k = "num" -> Len(ToString(text.v))
      [] text.k = "nan" -> 3
      [] OTHER -> 10

get_employee_name(u) ==
    IF users[u] # None THEN users[u][1].employee_name
    ELSE Str("User_" \o ToString(u))

is_user_registered(u) == users[u] # None /\ users[u][1].active

\* SheetsClient.get_or_create_employee_sheet and the rows it leaves behind:
\* the sheets and the audit log after the call, and the value returned.
get_or_create_employee_sheet(employee_name, failures) ==
    IF employee_name \in DOMAIN sheets
    THEN [ok |-> TRUE, sheets |-> sheets, audit |-> audit]
    ELSE IF "sheet" \in failures
    THEN [ok |-> FALSE, sheets |-> sheets, audit |-> audit]
    ELSE [ok |-> TRUE,
          sheets |-> sheets @@ (employee_name :> <<>>),
          audit |-> Append(audit, [user |-> employee_name, sheet |-> employee_name,
                                   action |-> "CREATE_SHEET",
                                   new_value |-> employee_name])]

\* An add_operation whose insert call fails after the row was stored.
add_operation_late_failure(employee_name, op, failures) ==
    LET got == get_or_create_employee_sheet(employee_name, failures)
        added == add_operation_rows(got.sheets[employee_name], op)
    IN  [ok |-> "insert" \notin failures,
         sheets |-> [got.sheets EXCEPT ![employee_name] = added[1]],
         audit |-> log_audit_add(got.audit, employee_name, op),
         summary |-> update_monthly_summary(summary, employee_name, op)]

\* An add_operation that reports a failure when the monthly summary cannot be
\* updated, the row being inserted already.
add_operation_summary_required(employee_name, op, failures) ==
    LET got == get_or_create_employee_sheet(employee_name, failures) IN
    IF ~got.ok \/ "insert" \in failures
       \/ add_operation_rows(got.sheets[employee_name], op) = None
    THEN [ok |-> FALSE, sheets |-> got.sheets, audit |-> got.audit,
          summary |-> summary]
    ELSE [ok |-> "summary" \notin failures,
          sheets |-> [got.sheets EXCEPT ![employee_name] =
                         add_operation_rows(got.sheets[employee_name], op)[1]],
          audit |-> log_audit_add(got.audit, employee_name, op),
          summary |-> IF "summary" \in failures THEN summary
                      ELSE update_monthly_summary(summary, employee_name, op)]

\* SheetsClient.add_operation: the sheets, audit log and summary after the
\* call, and the value returned.  failures names the store calls that fail.
add_operation(employee_name, op, failures) ==
    LET got == get_or_create_employee_sheet(employee_name, failures) IN
    IF ~got.ok
    THEN [ok |-> FALSE, sheets |-> sheets, audit |-> audit, summary |-> summary]
    ELSE LET added == IF "insert" \in failures THEN None
                      ELSE add_operation_rows(got.sheets[employee_name], op)
         IN  IF added = None
             THEN [ok |-> FALSE, sheets |-> got.sheets, audit |-> got.audit,
                   summary |-> summary]
             ELSE [ok |-> TRUE,
                   sheets |-> [got.sheets EXCEPT ![employee_name] = added[1]],
                   audit |-> log_audit_add(got.audit, employee_name, op),
                   summary |-> IF "summary" \in failures THEN summary
                               ELSE update_monthly_summary(summary, employee_name, op)]

\* The rows of the sheet a commit for this employee would scan.
ledger(employee_name) ==
    IF employee_name \in DOMAIN sheets THEN sheets[employee_name] ELSE <<>>

\* show_main_menu (also the end of start_handler): an unregistered user is
\* asked for a name; a registered one only reads.
show_main_menu(u) ==
    /\ IF is_user_registered(u)
       THEN UNCHANGED <<user_states, user_data>>
       ELSE /\ user_states' = [user_states EXCEPT ![u] = "SELECT_OPERATION_TYPE"]
            /\ user_data' = [user_data EXCEPT ![u] = TRUE]
    /\ UNCHANGED <<user_contexts, users, sheets, summary, audit, rental, reference>>

\* The operation data of the context handed to add_operation as they are.
save_operation_data_unchanged(context) == get_operation_data(context)[1]

\* The operation data save_operation hands to add_operation.
save_operation_data(context) ==
    LET data == get_operation_data(context)[1]
        is_rental == truthy(context.rental_address) /\ truthy(context.rental_mm)
    IN  IF is_rental
        THEN [data EXCEPT
                !.category = RENTAL_CATEGORY,
                !.type = IF data.type = ""
                         THEN context.rental_address[1] \o " " \o context.rental_mm[1]
                         ELSE data.type]
        ELSE data

\* A save_operation that takes a failed update of the rental sheet for a
\* failed commit: the row is inserted, the wizard is left where it was.
save_operation_rental_required(u, now, failures) ==
    LET context == user_contexts[u]
        employee_name == get_employee_name(u)
    IN  IF get_operation_data(context) = None
        THEN /\ put(u, reset(fc(u)))
             /\ UNCHANGED <<user_data, users, sheets, summary, audit, rental, reference>>
        ELSE LET is_rental_payment ==
                     truthy(context.rental_address) /\ truthy(context.rental_mm)
                 added == add_operation(employee_name, save_operation_data(context),
                                        failures)
                 updated == update_rental_payment_date(rental, context.rental_address[1],
                                context.rental_mm[1], context.date[1], now)
             IN  /\ sheets' = added.sheets
                 /\ audit' = added.audit
                 /\ summary' = added.summary
                 /\ IF added.ok /\ (~is_rental_payment
                                    \/ ("rental" \notin failures /\ updated.ok))
                    THEN /\ rental' = IF is_rental_payment THEN updated.rows ELSE rental
                         /\ put(u, reset(fc(u)))
                    ELSE UNCHANGED <<rental, user_states, user_contexts>>
                 /\ UNCHANGED <<user_data, users, reference>>

\* save_operation: now is the current date, failures the store calls that fail.
save_operation(u, now, failures) ==
    LET context == user_contexts[u]
        employee_name == get_employee_name(u)
    IN  IF get_operation_data(context) = None
        THEN /\ put(u, reset(fc(u)))
             /\ UNCHANGED <<user_data, users, sheets, summary, audit, rental, reference>>
        ELSE LET is_rental_payment ==
                     truthy(context.rental_address) /\ truthy(context.rental_mm)
                 added == add_operation(employee_name, save_operation_data(context),
                                        failures)
                 updated == update_rental_payment_date(rental, context.rental_address[1],
                                context.rental_mm[1], context.date[1], now)
             IN  /\ sheets' = added.sheets
                 /\ audit' = added.audit
                 /\ summary' = added.summary
                 /\ IF added.ok
                    THEN /\ rental' = IF is_rental_payment /\ "rental" \notin failures
                                      THEN updated.rows ELSE rental
                         /\ put(u, reset(fc(u)))
                    ELSE UNCHANGED <<rental, user_states, user_contexts>>
                 /\ UNCHANGED <<user_data, users, reference>>

----------------------------------------------------------------------------
(* The handlers: one action per callback or message *)

frame_sheets == UNCHANGED <<users, sheets, summary, audit, rental, reference>>

\* /start
StartCommand(u) == show_main_menu(u)

\* /menu, and the "back_to_menu" button
MenuCommand(u) == show_main_menu(u)

\* "add_operation"
ButtonAddOperation(u) ==
    /\ put(u, start_operation(fc(u)))
    /\ UNCHANGED user_data /\ frame_sheets

\* "cancel": cancel_operation
ButtonCancel(u) ==
    /\ put(u, reset(fc(u)))
    /\ UNCHANGED user_data /\ frame_sheets

\* "op_type_<direction>"
ButtonOpType(u, direction) ==
    /\ put(u, set_direction(fc(u), direction))
    /\ UNCHANGED user_data /\ frame_sheets

\* "date_today": today is the current date
ButtonDateToday(u, today) ==
    /\ put(u, set_date(fc(u), format_rental_date(today)))
    /\ UNCHANGED user_data /\ frame_sheets

\* "category_<category>"
ButtonCategory(u, category) ==
    /\ put(u, set_category(fc(u), category))
    /\ UNCHANGED user_data /\ frame_sheets

\* A name shown on a button is the sequence of its pieces: words, " " and "_".
\* str.replace(old, new) on the pieces.
replace(pieces, old, new) ==
    [i \in 1..Len(pieces) |-> IF pieces[i] = old THEN new ELSE pieces[i]]

\* The string the pieces spell.
RECURSIVE join(_)
join(pieces) == IF pieces = <<>> THEN "" ELSE pieces[1] \o join(Tail(pieces))

\* show_category_selection: the callback data of the button of a category,
\* after the prefix "category_".
category_callback(category) == replace(category, " ", "_")

\* button_handler: the category read back from the callback data.
category_of_callback(data) == join(replace(data, "_", " "))

\* The button show_category_selection made for the category is pressed.
CategoryChosen(u, category) ==
    ButtonCategory(u, category_of_callback(category_callback(category)))

\* "type_<type>" ("type_EMPTY" is the empty type)
ButtonType(u, type_name) ==
    /\ put(u, set_type(fc(u), type_name))
    /\ UNCHANGED user_data /\ frame_sheets

\* A skip of the description that saves the operation at once.
ButtonSkipDescriptionSaving(u) ==
    save_operation(u, <<1, 3, 2026>>, {})

\* "skip_description"
ButtonSkipDescription(u) ==
    /\ put(u, skip_description(fc(u)))
    /\ UNCHANGED user_data /\ frame_sheets

\* "confirm_operation"
ButtonConfirmOperation(u, now, failures) == save_operation(u, now, failures)

\* "confirm_rental_amount"
ButtonConfirmRentalAmount(u) ==
    /\ IF user_contexts[u].amount # None
       THEN put(u, set_state(fc(u), "CONFIRM"))
       ELSE UNCHANGED <<user_states, user_contexts>>
    /\ UNCHANGED user_data /\ frame_sheets

\* "go_back": handle_go_back
ButtonGoBack(u) ==
    /\ put(u, go_back(fc(u)))
    /\ UNCHANGED user_data /\ frame_sheets

\* show_rental_addresses: the addresses on the buttons it renders.
show_rental_addresses(u) ==
    IF user_contexts[u].category = Some(RENTAL_CATEGORY)
    THEN {mm.address : mm \in get_rental_mm_without_payments(rental, get_employee_name(u))}
    ELSE get_rental_addresses_for_employee(rental, get_employee_name(u))

\* show_rental_mm: the M/M numbers on the buttons it renders for the address.
show_rental_mm(u, address) ==
    IF user_contexts[u].category = Some(RENTAL_CATEGORY)
    THEN {mm.mm_number : mm \in {m \in get_rental_mm_without_payments(
                                           rental, get_employee_name(u)) :
                                   m.address = address}}
    ELSE get_rental_mm_for_address(rental, get_employee_name(u), address)

\* "rental_address_<address>"
ButtonRentalAddress(u, address) ==
    /\ put(u, set_rental_address(fc(u), address))
    /\ UNCHANGED user_data /\ frame_sheets

\* request_rental_amount: a standard amount found in the rental sheet is put
\* into the context.
request_rental_amount(r) ==
    LET payment_amount ==
            IF r.context.rental_address = None \/ r.context.rental_mm = None THEN None
            ELSE get_rental_payment_amount(rental, r.context.rental_address[1],
                                           r.context.rental_mm[1], 1)
    IN  IF payment_amount # None /\ payment_amount # Some(0)
        THEN [r EXCEPT !.context.amount = payment_amount]
        ELSE r

\* The "rental_mm_" branch taking the first type whatever the types are.
rental_mm_selected_first_type(r0, mm_number, today) ==
    LET r1 == set_rental_mm(r0, mm_number) IN
    IF ~truthy(r1.context.category)
    THEN LET r2 == set_category(set_direction(set_date(r1, format_rental_date(today)), "IN"),
                                RENTAL_CATEGORY)
             types == get_types(reference, "IN", RENTAL_CATEGORY)
         IN  request_rental_amount(set_state(set_type(r2, types[1]), "INPUT_RENTAL_AMOUNT"))
    ELSE r1

\* The "rental_mm_<address>_<mm>" branch of button_handler on the pair.
rental_mm_selected(r0, mm_number, today) ==
    LET r1 == set_rental_mm(r0, mm_number) IN
    IF ~truthy(r1.context.category)
    THEN LET r2 == set_category(set_direction(set_date(r1, format_rental_date(today)), "IN"),
                                RENTAL_CATEGORY)
             types == get_types(reference, "IN", RENTAL_CATEGORY)
             r3 == IF \E k \in 1..Len(types) : types[k] = RENTAL_DEFAULT_TYPE
                   THEN set_type(r2, RENTAL_DEFAULT_TYPE)
                   ELSE IF types # <<>> THEN set_type(r2, types[1])
                   ELSE set_type(r2, "")
         IN  request_rental_amount(set_state(r3, "INPUT_RENTAL_AMOUNT"))
    ELSE r1

\* The step the "rental_mm_" branch shows to the user: the amount prompt of
\* request_rental_amount, or the prompt of request_description.
rental_mm_prompt(r0, mm_number) ==
    IF ~truthy(set_rental_mm(r0, mm_number).context.category)
    THEN "INPUT_RENTAL_AMOUNT" ELSE "INPUT_DESCRIPTION"

ButtonRentalMM(u, mm_number, today) ==
    /\ put(u, rental_mm_selected(fc(u), mm_number, today))
    /\ UNCHANGED user_data /\ frame_sheets

\* "rental_add_payment": show_rental_addresses renders the addresses and
\* calls no method of the FSM.
rental_add_payment(r) == r

ButtonRentalAddPayment(u) ==
    /\ put(u, rental_add_payment(fc(u)))
    /\ UNCHANGED user_data /\ frame_sheets

\* The callbacks that only read and render: "monthly_summary", "show_balance",
\* "month_<m>", "date_manual", "rental_menu".
ButtonReadOnly(u) == UNCHANGED vars

\* handle_name_input
handle_name_input(u, name, failures) ==
    IF text_len(name) < 2
    THEN UNCHANGED <<user_states, user_contexts, users, sheets, audit>>
    ELSE LET got == get_or_create_employee_sheet(name, failures) IN
         /\ sheets' = got.sheets
         /\ audit' = got.audit
         /\ IF got.ok
            THEN /\ users' = IF "register" \in failures THEN users
                             ELSE [users EXCEPT ![u] = Some([employee_name |-> name,
                                                            sheet_name |-> name,
                                                            active |-> TRUE])]
                 /\ put(u, reset(fc(u)))
            ELSE UNCHANGED <<users, user_states, user_contexts>>

is_cancel_text(text) == text \in {Str("otmena"), Str("cancel")}
is_menu_text(text) == text \in {Str("menyu"), Str("menu")}

\* validate_date
validate_date(text) == split_date(text) # None /\ valid_calendar(split_date(text)[1])

\* validate_amount: Some(amount), or None when invalid.
validate_amount(text) ==
    IF float(text) # None /\ ~float_leq(float(text)[1], 0) THEN float(text) ELSE None

\* message_handler on a text that is no command
MessageHandler(u, text, failures) ==
    LET state == user_states[u] IN
    IF user_data[u]
    THEN /\ user_data' = [user_data EXCEPT ![u] = FALSE]
         /\ handle_name_input(u, text, failures)
         /\ UNCHANGED <<summary, rental, reference>>
    ELSE IF is_cancel_text(text)
    THEN /\ IF state # "IDLE" THEN put(u, reset(fc(u)))
            ELSE UNCHANGED <<user_states, user_contexts>>
         /\ UNCHANGED user_data /\ frame_sheets
    ELSE IF is_menu_text(text)
    THEN show_main_menu(u)
    ELSE /\ CASE state = "SELECT_DATE" ->
                    IF validate_date(text)
                    THEN put(u, set_state(set_date(fc(u), text), "INPUT_AMOUNT"))
                    ELSE UNCHANGED <<user_states, user_contexts>>
              [] state = "INPUT_AMOUNT" ->
                    IF validate_amount(text) # None
                    THEN put(u, set_amount(fc(u), validate_amount(text)[1]))
                    ELSE UNCHANGED <<user_states, user_contexts>>
              [] state = "INPUT_DESCRIPTION" ->
                    put(u, set_description(fc(u), text))
              [] state = "INPUT_RENTAL_AMOUNT" ->
                    IF user_contexts[u].amount # None
                    THEN put(u, set_state(fc(u), "CONFIRM"))
                    ELSE IF validate_amount(text) # None
                    THEN put(u, set_rental_amount(fc(u), validate_amount(text)[1]))
                    ELSE UNCHANGED <<user_states, user_contexts>>
              [] OTHER -> UNCHANGED <<user_states, user_contexts>>
         /\ UNCHANGED user_data /\ frame_sheets

----------------------------------------------------------------------------
(* Initial state and inputs *)

\* The reference sheet the bot is started with.
ReferenceRows ==
    <<[direction |-> "IN", category |-> RENTAL_CATEGORY,
       type |-> RENTAL_DEFAULT_TYPE, active |-> TRUE],
      [direction |-> "OUT", category |-> "Ofisnye", type |-> "Doverennosti",
       active |-> TRUE]>>

\* The rental sheet the bot is started with: one unit without a due date and
\* with a standard amount, one with a due date and without an amount.
RentalRows ==
    <<[legal_entity |-> "OOO", address |-> "Main St", mm_number |-> "12",
       next_payment_date |-> EMPTY, payment_amount |-> Num(500),
       responsible |-> Str("Al"), paid_this_month |-> Str("FALSE")],
      [legal_entity |-> "OOO", address |-> "Main St", mm_number |-> "13",
       next_payment_date |-> DateT(10, 3, 2026), payment_amount |-> EMPTY,
       responsible |-> Str("Al"), paid_this_month |-> Str("TRUE")]>>

\* The operations committed to the sheet of "Al" in earlier runs, in the
\* order they were committed (the first PriorRows of them).
PriorOperations ==
    [i \in 1..PriorRows |->
        [date |-> IF i % 3 = 0 THEN DateT(28, 2, 2026) ELSE DateT(1, 3, 2026),
         direction |-> IF i % 3 = 0 THEN "OUT" ELSE "IN",
         amount |-> IF i % 3 = 1 THEN 100 ELSE IF i % 3 = 2 THEN 50 ELSE 30,
         category |-> "Prochee", type |-> "Prochee", description |-> EMPTY,
         address |-> "", mm_number |-> ""]]

\* The rows of a sheet, the summary and the audit log after the first k of
\* the operations ops were committed for employee_name to empty sheets.
RECURSIVE committed_rows(_, _)
committed_rows(ops, k) ==
    IF k = 0 THEN <<>> ELSE add_operation_rows(committed_rows(ops, k - 1), ops[k])[1]

RECURSIVE committed_summary(_, _, _)
committed_summary(ops, employee_name, k) ==
    IF k = 0 THEN <<>>
    ELSE update_monthly_summary(committed_summary(ops, employee_name, k - 1),
                                employee_name, ops[k])

RECURSIVE committed_audit(_, _, _)
committed_audit(ops, employee_name, k) ==
    IF k = 0 THEN <<>>
    ELSE log_audit_add(committed_audit(ops, employee_name, k - 1), employee_name, ops[k])

\* FSM() and SheetsClient() just constructed.  User 1 is registered as "Al",
\* user 2 is unknown.
InitWizard ==
    /\ in_flight = <<>>
    /\ user_states = [u \in Users |-> "IDLE"]
    /\ user_contexts = [u \in Users |-> OperationContext]
    /\ user_data = [u \in Users |-> FALSE]
    /\ users = [u \in Users |->
                  IF u = 1 THEN Some([employee_name |-> Str("Al"),
                                      sheet_name |-> Str("Al"), active |-> TRUE])
                  ELSE None]
    /\ rental = RentalRows
    /\ reference = ReferenceRows

\* The bot started on a spreadsheet that outlives the process: "Al" has
\* committed PriorOperations in earlier runs.
Init ==
    /\ InitWizard
    /\ sheets = (Str("Al") :> committed_rows(PriorOperations, PriorRows))
    /\ summary = committed_summary(PriorOperations, Str("Al"), PriorRows)
    /\ audit = committed_audit(PriorOperations, Str("Al"), PriorRows)

Directions == {"IN", "OUT"}
Today == {<<1, 3, 2026>>}
Categories == {RENTAL_CATEGORY, "Prochee"}
Types == {"Prochee"}
Addresses == {"Main St"}
MMNumbers == {"12"}
Texts == {DateT(28, 2, 2026), DateT(31, 2, 2026), Num(100), Num(-5), Str("otmena")}

\* One handler run for user u.
Handle(u) ==
    \/ StartCommand(u)
    \/ MenuCommand(u)
    \/ ButtonAddOperation(u)
    \/ ButtonCancel(u)
    \/ \E direction \in Directions : ButtonOpType(u, direction)
    \/ \E today \in Today : ButtonDateToday(u, today)
    \/ \E category \in Categories : ButtonCategory(u, category)
    \/ \E type_name \in Types : ButtonType(u, type_name)
    \/ ButtonSkipDescription(u)
    \/ \E now \in Today, failures \in {{}, {"insert"}} :
           ButtonConfirmOperation(u, now, failures)
    \/ ButtonConfirmRentalAmount(u)
    \/ ButtonGoBack(u)
    \/ \E address \in Addresses : ButtonRentalAddress(u, address)
    \/ \E mm_number \in MMNumbers, today \in Today : ButtonRentalMM(u, mm_number, today)
    \/ ButtonReadOnly(u)
    \/ ButtonRentalAddPayment(u)
    \/ \E text \in Texts : MessageHandler(u, text, {})

\* A run of the bot is followed up to its first successful commit.
Running == sheets = (Str("Al") :> committed_rows(PriorOperations, PriorRows))

Next == Running /\ Handle(1) /\ UNCHANGED in_flight

Spec == Init /\ [][Next]_vars

----------------------------------------------------------------------------
(* The ledger engine on its own: SheetsClient.add_operation called on a
   spreadsheet whose employee sheet starts empty *)

LedgerDates == {DateT(28, 2, 2026), DateT(1, 3, 2026)}
LedgerAmounts == {30, 50, 100}

\* One call of add_operation for "Al".  The description carries the ordinal of
\* the call, so that the rows of a sheet tell in which order they were committed.
CommitOperation(date, direction, amount, failures) ==
    LET employee_name == Str("Al")
        op == [date |-> date, direction |-> direction, amount |-> amount,
               category |-> "Prochee", type |-> "Prochee",
               description |-> Num(Len(audit) + 1),
               address |-> "", mm_number |-> ""]
        added == add_operation(employee_name, op, failures)
    IN  /\ Len(audit) < MaxRows
        /\ sheets' = added.sheets
        /\ audit' = added.audit
        /\ summary' = added.summary
        /\ UNCHANGED <<user_states, user_contexts, user_data, users, rental, reference>>

InitLedger ==
    /\ InitWizard
    /\ sheets = (Str("Al") :> <<>>)
    /\ summary = <<>>
    /\ audit = <<>>

NextLedger ==
    /\ UNCHANGED in_flight
    /\ \E date \in LedgerDates, direction \in Directions, amount \in LedgerAmounts :
           CommitOperation(date, direction, amount, {})

SpecLedger == InitLedger /\ [][NextLedger]_vars

----------------------------------------------------------------------------
(* Properties of the ledger engine (SpecLedger) *)

AlRows == sheets[Str("Al")]

\* The ordinal of the commit that produced a row (its description).
ordinal(row) == row.F.v

\* The date key of a row.
row_date(row) == date_tuple(split_date(row.A)[1])

\* The operation a row was committed from.
row_operation(row) ==
    [date |-> row.A,
     direction |-> IF row.B # EMPTY THEN "IN" ELSE "OUT",
     amount |-> IF row.B # EMPTY THEN cell_number(row.B) ELSE cell_number(row.C),
     category |-> row.D, type |-> row.E, description |-> row.F,
     address |-> row.H, mm_number |-> row.I]

\* The operations committed to a sheet, in the order of their commits.
committed_operations(rows) ==
    [i \in 1..Len(rows) |->
        row_operation(rows[CHOOSE k \in 1..Len(rows) : ordinal(rows[k]) = i])]

\* +amount for IN, -amount for OUT.
signed(direction, amount) == IF direction = "IN" THEN amount ELSE 0 - amount

\* The sum of the signed amounts of the operations the audit log records.
RECURSIVE audit_signed_sum(_, _)
audit_signed_sum(rows, k) ==
    IF k = 0 THEN 0
    ELSE audit_signed_sum(rows, k - 1)
         + (IF rows[k].action = "ADD_OPERATION"
            THEN signed(rows[k].new_value.direction, rows[k].new_value.amount)
            ELSE 0)

\* The sum of the signed amounts of the first k rows of a sheet.
RECURSIVE rows_signed_sum(_, _)
rows_signed_sum(rows, k) ==
    IF k = 0 THEN 0
    ELSE rows_signed_sum(rows, k - 1)
         + cell_number(rows[k].B) - cell_number(rows[k].C)

\* A row without its balance formula.
entry(row) == [row EXCEPT !.G = 0]

entries(rows) == [k \in 1..Len(rows) |-> entry(rows[k])]

\* A sequence without its k-th element.
without(seq, k) == SubSeq(seq, 1, k - 1) \o SubSeq(seq, k + 1, Len(seq))

\* C1: after any sequence of successful commits (valid date, positive whole
\* amount) to a sheet that started empty, get_balance is the sum of +amount for IN and -amount for OUT over
\* the committed operations, and committing the same operations in any other
\* order gives the same balance.
C1_BalanceIsSignedSum ==
    LET ops == committed_operations(AlRows)
        n == Len(ops)
    IN  /\ get_balance_rows(AlRows) = audit_signed_sum(audit, Len(audit))
        /\ \A p \in Permutations(1..n) :
              get_balance_rows(committed_rows([i \in 1..n |-> ops[p[i]]], n))
                  = get_balance_rows(AlRows)

\* Three commits, income and expense, on two dates, the last one dated
\* before the first.
C1_Witness ==
    /\ Len(AlRows) = 3
    /\ \E i, j \in 1..3 : AlRows[i].B # EMPTY /\ AlRows[j].C # EMPTY
    /\ ordinal(AlRows[1]) = 3
    /\ row_date(AlRows[1]) # row_date(AlRows[3])

\* C2: the rows of a sheet that started empty are in non-decreasing date
\* order after every commit.
C2_DateOrder ==
    \A i, j \in 1..Len(AlRows) :
        i < j => TupleGeq(row_date(AlRows[j]), row_date(AlRows[i]))

\* A commit dated before the rows already there, followed by another commit.
C2_Witness ==
    /\ Len(AlRows) = 3
    /\ ordinal(AlRows[1]) = 2
    /\ TupleGt(row_date(AlRows[2]), row_date(AlRows[1]))

\* C3: of two rows with the same date the one committed first is stored
\* first, in every state reached by further commits.
C3_SameDateCommitOrder ==
    \A i, j \in 1..Len(AlRows) :
        (i < j /\ row_date(AlRows[i]) = row_date(AlRows[j]))
            => ordinal(AlRows[i]) < ordinal(AlRows[j])

\* Two commits on one date, then a third commit dated before them.
C3_Witness ==
    /\ Len(AlRows) = 3
    /\ row_date(AlRows[2]) = row_date(AlRows[3])
    /\ ordinal(AlRows[2]) = 1 /\ ordinal(AlRows[3]) = 2
    /\ ordinal(AlRows[1]) = 3

\* C4: a successful commit adds exactly one row and leaves the rows that were
\* there in their relative order, also when the new row is dated before all
\* of them.
C4_CommitAddsOneRow ==
    [][sheets' # sheets =>
          /\ Len(sheets'[Str("Al")]) = Len(AlRows) + 1
          /\ \E k \in 1..Len(sheets'[Str("Al")]) :
                 /\ ordinal(sheets'[Str("Al")][k]) = Len(AlRows) + 1
                 /\ without(entries(sheets'[Str("Al")]), k) = entries(AlRows)]_vars

\* The last commit is dated before both rows that were there.
C4_Witness ==
    /\ Len(AlRows) = 3
    /\ ordinal(AlRows[1]) = 3
    /\ TupleGt(row_date(AlRows[2]), row_date(AlRows[1]))
    /\ ordinal(AlRows[2]) = 1 /\ ordinal(AlRows[3]) = 2

\* C5: after every commit the balance stored in the row at position i is the
\* sum of the signed amounts of the rows at positions 0..i.
C5_RunningBalance ==
    \A k \in 1..Len(AlRows) : balance_cell(AlRows, k) = rows_signed_sum(AlRows, k)

----------------------------------------------------------------------------
(* Properties of the wizard (Spec) *)

\* The ledger, the monthly summary and the rental records.
stores == <<sheets, summary, rental>>

\* A press of "confirm_operation" by user 1.
ConfirmStep == \E now \in Today, failures \in SUBSET {"insert"} :
                   ButtonConfirmOperation(1, now, failures)

\* A wizard input of user 1 other than "confirm_operation": start, an advance
\* input, go back or cancel.
OtherWizardStep ==
    \/ ButtonAddOperation(1)
    \/ ButtonCancel(1)
    \/ ButtonGoBack(1)
    \/ ButtonSkipDescription(1)
    \/ ButtonConfirmRentalAmount(1)
    \/ \E direction \in Directions : ButtonOpType(1, direction)
    \/ \E today \in Today : ButtonDateToday(1, today)
    \/ \E category \in Categories : ButtonCategory(1, category)
    \/ \E type_name \in Types : ButtonType(1, type_name)
    \/ \E address \in Addresses : ButtonRentalAddress(1, address)
    \/ \E mm_number \in MMNumbers, today \in Today : ButtonRentalMM(1, mm_number, today)
    \/ \E text \in Texts : MessageHandler(1, text, {})

\* C6: a row is committed only by a "confirm_operation" received in state
\* CONFIRM; received in any other state it commits nothing.
C6_CommitOnlyInConfirm ==
    [][(ConfirmStep /\ user_states[1] # "CONFIRM") => UNCHANGED sheets]_vars

\* C7: for every forward edge of the wizard that sets a field, taking the edge
\* and then going back gives the state and the context the edge started from.
C7_GoBackRoundTrip ==
    LET r == fc(1)
        c == r.context
    IN  /\ (r.state = "SELECT_OPERATION_TYPE" /\ c.direction = None)
              => \A direction \in Directions : go_back(set_direction(r, direction)) = r
        /\ (r.state = "SELECT_DATE" /\ c.date = None)
              => \A today \in Today : go_back(set_date(r, format_rental_date(today))) = r
        /\ (r.state = "INPUT_AMOUNT" /\ c.amount = None)
              => go_back(set_amount(r, 100)) = r
        /\ (r.state = "SELECT_CATEGORY" /\ c.category = None)
              => \A category \in Categories : go_back(set_category(r, category)) = r
        /\ (r.state = "SELECT_TYPE" /\ c.type = None)
              => \A type_name \in Types : go_back(set_type(r, type_name)) = r
        /\ (r.state = "SELECT_RENTAL_ADDRESS" /\ c.rental_address = None)
              => \A address \in Addresses : go_back(set_rental_address(r, address)) = r
        /\ (r.state = "SELECT_RENTAL_MM" /\ c.rental_mm = None)
              => \A mm_number \in MMNumbers, today \in Today :
                     go_back(rental_mm_selected(r, mm_number, today)) = r
        /\ (r.state = "INPUT_RENTAL_AMOUNT" /\ c.amount = None)
              => go_back(set_rental_amount(r, 100)) = r
        /\ (r.state = "INPUT_DESCRIPTION" /\ c.description = None)
              => /\ go_back(skip_description(r)) = r
                 /\ go_back(set_description(r, Str("x"))) = r

\* C8: a cancel (the button, or the text from a user who is not being asked
\* for a name) in a state other than IDLE leaves the user in IDLE with an
\* empty context, and the ledger, the monthly summary and the rental records
\* as they were.
C8_CancelResets ==
    [][(user_states[1] # "IDLE"
          /\ (ButtonCancel(1) \/ MessageHandler(1, Str("otmena"), {})))
       => /\ user_states'[1] = "IDLE"
          /\ user_contexts'[1] = OperationContext
          /\ UNCHANGED stores]_vars

\* The wizard in the middle of an operation, ready to be cancelled.
C8_Witness ==
    /\ user_states[1] = "INPUT_DESCRIPTION"
    /\ user_contexts[1].direction # None
    /\ user_contexts[1].amount # None
    /\ user_contexts[1].type # None

\* C9: no wizard input other than "confirm_operation" writes the ledger, the
\* monthly summary or the rental records; every step that writes one of them
\* is a "confirm_operation" (in which state it is accepted is the subject
\* of C6).
C9_OnlyConfirmWrites ==
    [][/\ OtherWizardStep => UNCHANGED stores
       /\ ~UNCHANGED stores => ConfirmStep]_vars

\* The wizard led up to the confirmation with nothing written yet.
C9_Witness ==
    /\ user_states[1] = "CONFIRM"
    /\ user_contexts[1].description # None
    /\ user_contexts[1].category # None
    /\ sheets = (Str("Al") :> committed_rows(PriorOperations, PriorRows))
    /\ summary = committed_summary(PriorOperations, Str("Al"), PriorRows)

\* C10: after a successful commit the user is in IDLE with an empty context.
C10_CommitResets ==
    [][(ConfirmStep /\ Len(sheets'[Str("Al")]) = Len(sheets[Str("Al")]) + 1)
       => /\ user_states'[1] = "IDLE"
          /\ user_contexts'[1] = OperationContext]_vars

\* A commit has just been made.
C10_Witness ==
    /\ Len(sheets[Str("Al")]) = PriorRows + 1
    /\ user_states[1] = "IDLE"
    /\ user_contexts[1] = OperationContext

\* C11: a "confirm_operation" received while direction, date or amount is
\* unset writes nothing to the ledger, the monthly summary, the rental
\* records or the audit log, and leaves the user in IDLE with an empty
\* context.
C11_IncompleteOperation ==
    [][(/\ ConfirmStep
        /\ \/ user_contexts[1].direction = None
           \/ user_contexts[1].date = None
           \/ user_contexts[1].amount = None)
       => /\ UNCHANGED <<stores, audit>>
          /\ user_states'[1] = "IDLE"
          /\ user_contexts'[1] = OperationContext]_vars

\* The wizard waits for the amount: direction and date are set, the amount
\* is not.
C11_Witness ==
    /\ user_states[1] = "INPUT_AMOUNT"
    /\ user_contexts[1].direction # None
    /\ user_contexts[1].date # None
    /\ user_contexts[1].amount = None

\* C12: whenever the state is CONFIRM the context has direction, date and
\* amount set.
C12_ConfirmIsComplete ==
    user_states[1] = "CONFIRM"
        => /\ user_contexts[1].direction # None
           /\ user_contexts[1].date # None
           /\ user_contexts[1].amount # None

\* C13: when the insertion of a commit fails the ledger, the monthly summary
\* and the rental records are not changed and the state and the context are
\* those before the "confirm_operation".
C13_FailedCommitKeepsWizard ==
    [][\A now \in Today :
          (get_operation_data(user_contexts[1]) # None
             /\ ButtonConfirmOperation(1, now, {"insert"}))
          => UNCHANGED <<stores, user_states, user_contexts>>]_vars

\* An expense assembled up to the confirmation.
C13_Witness ==
    /\ user_states[1] = "CONFIRM"
    /\ user_contexts[1].direction = Some("OUT")
    /\ user_contexts[1].date # None
    /\ user_contexts[1].amount = Some(100)

----------------------------------------------------------------------------
(* The text inputs of the wizard: message_handler on texts of every shape *)

InputTexts == {DateT(28, 2, 2026), DateT(31, 2, 2026), Num(100), Num(-5), Num(0),
               NanT, Str("abc")}

\* The categories of the reference sheet, as shown on the buttons.
CategoryNames == {<<"Dohody", " ", "ot", " ", "arendy">>, <<"Prochee">>,
                  <<"Dohody", "_", "ot", "_", "arendy">>, <<"A", "_", "B">>}

\* The category-first wizard of user 1 without the commit.
NextInput ==
    /\ UNCHANGED in_flight
    /\ \/ ButtonAddOperation(1)
       \/ ButtonCancel(1)
       \/ ButtonGoBack(1)
       \/ \E direction \in Directions : ButtonOpType(1, direction)
       \/ \E today \in Today : ButtonDateToday(1, today)
       \/ \E category \in CategoryNames : CategoryChosen(1, category)
       \/ \E type_name \in Types : ButtonType(1, type_name)
       \/ ButtonSkipDescription(1)
       \/ \E text \in InputTexts : MessageHandler(1, text, {})

SpecInput == Init /\ [][NextInput]_vars

\* The text is a numeral greater than zero.
positive_number(text) == text.k = "num" /\ text.v > 0

\* The text is a calendar date written dd.mm.yyyy.
calendar_date(text) == text.k = "date" /\ valid_calendar(<<text.d, text.m, text.y>>)

\* C14: in INPUT_AMOUNT a text that is not a number greater than zero, and in
\* SELECT_DATE a text that is not a calendar date dd.mm.yyyy, leaves the state
\* and the context as they were.
C14_InvalidInputKeepsState ==
    [][\A text \in InputTexts :
          (/\ MessageHandler(1, text, {})
           /\ \/ user_states[1] = "INPUT_AMOUNT" /\ ~positive_number(text)
              \/ user_states[1] = "SELECT_DATE" /\ ~calendar_date(text))
          => UNCHANGED <<user_states, user_contexts>>]_vars

----------------------------------------------------------------------------
(* Registration: the handlers run for user 2, who is not in the Users sheet *)

RegTexts == {Str("B"), Str("Bo"), Num(100)}

NextReg ==
    /\ UNCHANGED in_flight
    /\ \/ StartCommand(2)
       \/ MenuCommand(2)
       \/ ButtonAddOperation(2)
       \/ ButtonCancel(2)
       \/ ButtonGoBack(2)
       \/ \E direction \in Directions : ButtonOpType(2, direction)
       \/ \E today \in Today : ButtonDateToday(2, today)
       \/ \E text \in RegTexts, failures \in {{}, {"sheet"}, {"register"}} :
              MessageHandler(2, text, failures)

SpecReg == Init /\ [][NextReg]_vars

\* C15: a name shorter than 2 characters sent while the bot waits for a name
\* changes nothing: the user is still asked for a name, so that the next text
\* is handled as a name again.
C15_ShortNameKeepsWaiting ==
    [][(user_data[2] /\ MessageHandler(2, Str("B"), {}))
       => /\ user_data'[2]
          /\ UNCHANGED <<users, user_states, user_contexts>>]_vars

\* C16: a user who is not registered, or not active, is never in a state
\* other than IDLE.
C16_WizardOnlyForRegistered ==
    ~is_user_registered(2) => user_states[2] = "IDLE"

\* C17: in SELECT_CATEGORY the choice of a category puts that category into
\* the context and moves to SELECT_RENTAL_ADDRESS if the category is the
\* rental-income one, and to SELECT_TYPE for every other category.
C17_CategoryBranch ==
    [][\A category \in CategoryNames :
          (user_states[1] = "SELECT_CATEGORY" /\ CategoryChosen(1, category))
          => /\ user_contexts'[1].category = Some(join(category))
             /\ user_states'[1] = IF join(category) = RENTAL_CATEGORY
                                  THEN "SELECT_RENTAL_ADDRESS" ELSE "SELECT_TYPE"]_vars

\* C18: a unit chosen in SELECT_RENTAL_MM with the category already set leads
\* to INPUT_DESCRIPTION and changes no field but rental_mm; with the category
\* unset it leads to INPUT_RENTAL_AMOUNT; in both cases the state is the step
\* shown to the user.
C18_UnitBranch ==
    [][\A mm_number \in MMNumbers, today \in Today :
          (user_states[1] = "SELECT_RENTAL_MM" /\ ButtonRentalMM(1, mm_number, today))
          => /\ user_contexts[1].category # None
                => /\ user_states'[1] = "INPUT_DESCRIPTION"
                   /\ user_contexts'[1] =
                          [user_contexts[1] EXCEPT !.rental_mm = Some(mm_number)]
             /\ user_contexts[1].category = None
                => user_states'[1] = "INPUT_RENTAL_AMOUNT"
             /\ user_states'[1] = rental_mm_prompt(fc(1), mm_number)]_vars

----------------------------------------------------------------------------
(* The payment-first path: the rental buttons on several reference sheets *)

\* Reference sheets: the default rental type first, second, absent, inactive.
ReferenceTables ==
    LET row(type_name, active) ==
            [direction |-> "IN", category |-> RENTAL_CATEGORY,
             type |-> type_name, active |-> active]
    IN  {ReferenceRows,
         <<row("Nalichnye", TRUE), row(RENTAL_DEFAULT_TYPE, TRUE)>>,
         <<row("Nalichnye", TRUE), row("Zachet", TRUE)>>,
         <<row(RENTAL_DEFAULT_TYPE, FALSE), row("Zachet", TRUE)>>}

PaymentMM == {"12", "13"}
PaymentTexts == {Num(100), Num(-5)}

InitPayment ==
    /\ in_flight = <<>>
    /\ user_states = [u \in Users |-> "IDLE"]
    /\ user_contexts = [u \in Users |-> OperationContext]
    /\ user_data = [u \in Users |-> FALSE]
    /\ users = [u \in Users |->
                  IF u = 1 THEN Some([employee_name |-> Str("Al"),
                                      sheet_name |-> Str("Al"), active |-> TRUE])
                  ELSE None]
    /\ rental = RentalRows
    /\ reference \in ReferenceTables
    /\ sheets = (Str("Al") :> committed_rows(PriorOperations, PriorRows))
    /\ summary = committed_summary(PriorOperations, Str("Al"), PriorRows)
    /\ audit = committed_audit(PriorOperations, Str("Al"), PriorRows)

NextPayment ==
    /\ UNCHANGED in_flight
    /\ \/ ButtonAddOperation(1)
       \/ ButtonCancel(1)
       \/ ButtonGoBack(1)
       \/ ButtonRentalAddPayment(1)
       \/ ButtonConfirmRentalAmount(1)
       \/ \E direction \in Directions : ButtonOpType(1, direction)
       \/ \E address \in Addresses : ButtonRentalAddress(1, address)
       \/ \E mm_number \in PaymentMM, today \in Today : ButtonRentalMM(1, mm_number, today)
       \/ \E text \in PaymentTexts : MessageHandler(1, text, {})

SpecPayment == InitPayment /\ [][NextPayment]_vars

\* The types of the active reference rows for (IN, rental income), in the
\* order of the sheet.
rental_reference_types ==
    LET rows == SelectSeq(reference, LAMBDA row :
                    /\ row.direction = "IN" /\ row.category = RENTAL_CATEGORY
                    /\ row.active /\ row.type # "")
    IN  [k \in 1..Len(rows) |-> rows[k].type]

\* C19: a unit chosen in SELECT_RENTAL_MM while the category is unset leaves
\* the context with direction IN, today's date, the rental-income category,
\* the default type if the reference sheet lists it for (IN, rental income)
\* and else the first type listed, the address and the unit, in state
\* INPUT_RENTAL_AMOUNT.
C19_PaymentFirstAutoFill ==
    [][\A mm_number \in PaymentMM, today \in Today :
          (/\ user_states[1] = "SELECT_RENTAL_MM"
           /\ user_contexts[1].category = None
           /\ ButtonRentalMM(1, mm_number, today))
          => LET c == user_contexts'[1]
                 types == rental_reference_types
             IN  /\ user_states'[1] = "INPUT_RENTAL_AMOUNT"
                 /\ c.direction = Some("IN")
                 /\ c.date = Some(format_rental_date(today))
                 /\ c.category = Some(RENTAL_CATEGORY)
                 /\ types # <<>> =>
                       c.type = IF \E k \in 1..Len(types) : types[k] = RENTAL_DEFAULT_TYPE
                                THEN Some(RENTAL_DEFAULT_TYPE) ELSE Some(types[1])
                 /\ c.rental_address # None
                 /\ c.rental_address = user_contexts[1].rental_address
                 /\ c.rental_mm = Some(mm_number)]_vars

\* The unit was chosen payment-first on a sheet that lists the default type
\* second.
C19_Witness ==
    /\ user_states[1] = "INPUT_RENTAL_AMOUNT"
    /\ user_contexts[1].type = Some(RENTAL_DEFAULT_TYPE)
    /\ user_contexts[1].rental_mm = Some("13")
    /\ Len(rental_reference_types) = 2
    /\ rental_reference_types[2] = RENTAL_DEFAULT_TYPE

\* C20: "rental_add_payment" puts the user in SELECT_RENTAL_ADDRESS with an
\* empty context, whatever the state and the context were.
C20_PayObligationStartsClean ==
    LET r == rental_add_payment(fc(1))
    IN  r.state = "SELECT_RENTAL_ADDRESS" /\ r.context = OperationContext

\* C21: in INPUT_RENTAL_AMOUNT a text that is a number greater than zero
\* becomes the amount of the context and moves to CONFIRM, and any other text
\* leaves the state and the context as they were, also when a standard amount
\* was filled in before.
C21_RentalAmountInput ==
    [][\A text \in PaymentTexts :
          (user_states[1] = "INPUT_RENTAL_AMOUNT" /\ MessageHandler(1, text, {}))
          => IF positive_number(text)
             THEN /\ user_states'[1] = "CONFIRM"
                  /\ user_contexts'[1] =
                         [user_contexts[1] EXCEPT !.amount = Some(text.v)]
             ELSE UNCHANGED <<user_states, user_contexts>>]_vars

\* C22: in every reachable state, for every account, an amount that is set is
\* greater than zero and a date that is set is a valid calendar date.
C22_AmountPositiveDateValid ==
    \A u \in Users :
        /\ user_contexts[u].amount # None
              => /\ user_contexts[u].amount[1] # NaN
                 /\ user_contexts[u].amount[1] > 0
        /\ user_contexts[u].date # None => calendar_date(user_contexts[u].date[1])

----------------------------------------------------------------------------
(* The rental payments: both paths of the wizard up to the first commit, on
   rental sheets with paid and unpaid units *)

\* The rental sheet the bot is started with: RentalRows and a second address
\* whose only unit is paid.
PaidRentalRows ==
    RentalRows \o
      <<[legal_entity |-> "OOO", address |-> "Oak St", mm_number |-> "21",
         next_payment_date |-> DateT(20, 12, 2025), payment_amount |-> Num(700),
         responsible |-> Str("Al"), paid_this_month |-> Str("TRUE")]>>

RentalAddresses == {"Main St", "Oak St"}
RentalMM == {"12", "21"}
RentalToday == {<<5, 1, 2026>>}
RentalTexts == {Num(100), DateT(5, 1, 26)}
RentalFailures == {{}, {"insert"}, {"rental"}}

InitRental ==
    /\ in_flight = <<>>
    /\ user_states = [u \in Users |-> "IDLE"]
    /\ user_contexts = [u \in Users |-> OperationContext]
    /\ user_data = [u \in Users |-> FALSE]
    /\ users = [u \in Users |->
                  IF u = 1 THEN Some([employee_name |-> Str("Al"),
                                      sheet_name |-> Str("Al"), active |-> TRUE])
                  ELSE None]
    /\ rental = PaidRentalRows
    /\ reference = ReferenceRows
    /\ sheets = (Str("Al") :> committed_rows(PriorOperations, PriorRows))
    /\ summary = committed_summary(PriorOperations, Str("Al"), PriorRows)
    /\ audit = committed_audit(PriorOperations, Str("Al"), PriorRows)

NextRental ==
    /\ UNCHANGED in_flight
    /\ Running
    /\ \/ ButtonAddOperation(1)
       \/ ButtonCancel(1)
       \/ ButtonGoBack(1)
       \/ ButtonRentalAddPayment(1)
       \/ ButtonConfirmRentalAmount(1)
       \/ \E direction \in Directions : ButtonOpType(1, direction)
       \/ \E today \in RentalToday : ButtonDateToday(1, today)
       \/ \E category \in Categories : ButtonCategory(1, category)
       \/ \E type_name \in Types : ButtonType(1, type_name)
       \/ ButtonSkipDescription(1)
       \/ \E now \in RentalToday, failures \in RentalFailures :
              ButtonConfirmOperation(1, now, failures)
       \/ \E address \in RentalAddresses : ButtonRentalAddress(1, address)
       \/ \E mm_number \in RentalMM, today \in RentalToday :
              ButtonRentalMM(1, mm_number, today)
       \/ \E text \in RentalTexts : MessageHandler(1, text, {})

SpecRental == InitRental /\ [][NextRental]_vars

\* C23: an address chosen from the buttons of show_rental_addresses moves the
\* wizard to SELECT_RENTAL_MM only if the employee has an unpaid unit at that
\* address, in the category-first and in the payment-first path.
C23_OnlyUnpaidAddressSelectable ==
    [][\A address \in RentalAddresses :
          (/\ address \in show_rental_addresses(1)
           /\ ButtonRentalAddress(1, address)
           /\ user_states'[1] = "SELECT_RENTAL_MM")
          => \E mm \in get_rental_mm_without_payments(rental, get_employee_name(1)) :
                 mm.address = address]_vars

\* C24: go_back moves each state to its one predecessor and clears exactly
\* the field that was set to reach the state, every other field of the
\* context staying as it was: SELECT_DATE clears direction, INPUT_AMOUNT date,
\* SELECT_CATEGORY amount, SELECT_TYPE and SELECT_RENTAL_ADDRESS category,
\* SELECT_RENTAL_MM rental_address, INPUT_RENTAL_AMOUNT rental_mm,
\* INPUT_DESCRIPTION type, CONFIRM description.
C24_GoBackTable ==
    [][LET back == [SELECT_DATE |-> <<"SELECT_OPERATION_TYPE", "direction">>,
                    INPUT_AMOUNT |-> <<"SELECT_DATE", "date">>,
                    SELECT_CATEGORY |-> <<"INPUT_AMOUNT", "amount">>,
                    SELECT_TYPE |-> <<"SELECT_CATEGORY", "category">>,
                    SELECT_RENTAL_ADDRESS |-> <<"SELECT_CATEGORY", "category">>,
                    SELECT_RENTAL_MM |-> <<"SELECT_RENTAL_ADDRESS", "rental_address">>,
                    INPUT_RENTAL_AMOUNT |-> <<"SELECT_RENTAL_MM", "rental_mm">>,
                    INPUT_DESCRIPTION |-> <<"SELECT_TYPE", "type">>,
                    CONFIRM |-> <<"INPUT_DESCRIPTION", "description">>]
       IN  (ButtonGoBack(1) /\ user_states[1] \in DOMAIN back)
           => /\ user_states'[1] = back[user_states[1]][1]
              /\ user_contexts'[1] =
                     [user_contexts[1] EXCEPT ![back[user_states[1]][2]] = None]]_vars

\* Back in SELECT_RENTAL_MM from INPUT_RENTAL_AMOUNT: the unit is cleared, the
\* address and the standard amount that was filled in are kept.
C24_Witness ==
    /\ user_states[1] = "SELECT_RENTAL_MM"
    /\ user_contexts[1].rental_mm = None
    /\ user_contexts[1].rental_address = Some("Main St")
    /\ user_contexts[1].amount = Some(500)

\* C25: go_back in IDLE or in SELECT_OPERATION_TYPE changes neither the state
\* nor a field of the context and returns False, where a back move returns
\* True; calling it again gives the same.
C25_GoBackAtFirstStep ==
    \A u \in Users :
        LET r == fc(u) IN
        IF r.state \in {"IDLE", "SELECT_OPERATION_TYPE"}
        THEN /\ go_back(r) = r
             /\ ~go_back_moved(r)
             /\ go_back(go_back(r)) = r
             /\ ~go_back_moved(go_back(r))
        ELSE /\ go_back(r) # r
             /\ go_back_moved(r)

\* The first step of the wizard with a context that is not empty.
C25_Witness ==
    /\ user_states[1] = "SELECT_OPERATION_TYPE"
    /\ user_contexts[1].amount # None

\* The linked rental row of the context of user 1, 0 if there is none.
linked_row ==
    IF truthy(user_contexts[1].rental_address) /\ truthy(user_contexts[1].rental_mm)
    THEN rental_row_index(rental, user_contexts[1].rental_address[1],
                          user_contexts[1].rental_mm[1], 1)
    ELSE 0

\* A "confirm_operation" of user 1 that inserted a row, no store call failing.
PaymentCommitStep ==
    /\ \E now \in RentalToday : ButtonConfirmOperation(1, now, {})
    /\ sheets' # sheets

\* C26: a commit linked to a rental unit sets the next payment date of the
\* unit to the date of the committed entry plus 30 days, whatever the date
\* was before (05.01.2026 gives 04.02.2026).
C26_NextDueDatePlus30 ==
    [][(PaymentCommitStep /\ linked_row # 0)
       => LET date == user_contexts[1].date[1] IN
          rental'[linked_row].next_payment_date =
              format_rental_date(plus_days(<<date.d, date.m, date.y>>, 30))]_vars

\* A "confirm_operation" of user 1 that inserted a row.
InsertingConfirmStep ==
    /\ \E now \in RentalToday, failures \in RentalFailures :
           ButtonConfirmOperation(1, now, failures)
    /\ sheets' # sheets

\* C27: a rental row changes only in a "confirm_operation" that inserted a
\* row linked to the address and the unit of that rental row, and only in its
\* next payment date: a commit that fails, a cancel, a go_back and a commit
\* without address and unit change no rental row, and a payment commit
\* changes no rental row but the linked one.
C27_DueDateOnlyByLinkedCommit ==
    [][/\ Len(rental') = Len(rental)
       /\ \A k \in 1..Len(rental) :
             rental'[k] # rental[k]
             => /\ InsertingConfirmStep
                /\ k = linked_row
                /\ rental'[k] = [rental[k] EXCEPT
                                   !.next_payment_date = rental'[k].next_payment_date]]_vars

\* Unit 12 of Main St was paid on 05.01.2026; unit 13 is as it was.
C27_Witness ==
    /\ rental[1].next_payment_date = DateT(4, 2, 2026)
    /\ rental[2] = RentalRows[2]

\* C28: a payment commit leaves the "paid" flag of every rental row as it
\* was, so the units get_rental_mm_without_payments lists are the same before
\* and after.
C28_CommitKeepsPaidFlag ==
    [][InsertingConfirmStep
       => /\ Len(rental') = Len(rental)
          /\ \A k \in 1..Len(rental) :
                rental'[k].paid_this_month = rental[k].paid_this_month
          /\ get_rental_mm_without_payments(rental', Str("Al"))
                 = get_rental_mm_without_payments(rental, Str("Al"))]_vars

\* Unit 12 of Main St has a new payment date and is still listed as unpaid.
C28_Witness ==
    /\ rental[1].next_payment_date # EMPTY
    /\ rental[1].paid_this_month = Str("FALSE")
    /\ [address |-> "Main St", mm_number |-> "12"]
           \in get_rental_mm_without_payments(rental, Str("Al"))

\* C29: the row a commit writes for a context with address and unit has the
\* rental-income category when the category of the context is unset or another
\* one, and the type "<address> <unit>" when the type of the context is unset
\* or empty; for a context without address or unit an unset category or type
\* is written as the empty string; an unset description is written as the
\* empty string.
C29_CommittedDefaults ==
    [][InsertingConfirmStep
       => LET c == user_contexts[1]
              linked == c.rental_address # None /\ c.rental_mm # None
              category == IF linked
                          THEN (IF c.category = None \/ c.category[1] # RENTAL_CATEGORY
                                THEN RENTAL_CATEGORY ELSE c.category[1])
                          ELSE (IF c.category = None THEN "" ELSE c.category[1])
              type_name == IF linked /\ (c.type = None \/ c.type = Some(""))
                           THEN c.rental_address[1] \o " " \o c.rental_mm[1]
                           ELSE (IF c.type = None THEN "" ELSE c.type[1])
              description == IF c.description = None THEN EMPTY ELSE c.description[1]
          IN  \E k \in 1..Len(sheets'[Str("Al")]) :
                 /\ without(entries(sheets'[Str("Al")]), k) = entries(AlRows)
                 /\ sheets'[Str("Al")][k].D = category
                 /\ sheets'[Str("Al")][k].E = type_name
                 /\ sheets'[Str("Al")][k].F = description]_vars

\* A committed row whose type was made of the address and the unit.
C29_Witness ==
    \E k \in 1..Len(AlRows) :
        /\ AlRows[k].E = "Main St 12" /\ AlRows[k].D = RENTAL_CATEGORY
        /\ AlRows[k].F = EMPTY

\* C30: after any sequence of commits every row of the monthly summary has
\* net = income - expense.
C30_SummaryNet ==
    \A k \in 1..Len(summary) :
        summary[k].net = summary[k].income - summary[k].expense

----------------------------------------------------------------------------
(* The ledger on a sheet that was edited by hand: add_operation, get_balance
   and get_monthly_summary over rows out of date order, rows whose date does
   not parse and amount cells that are no numbers *)

\* A data row as found in the sheet.
stored_row(date, income, expense) ==
    [A |-> date, B |-> income, C |-> expense, D |-> "Prochee", E |-> "Prochee",
     F |-> EMPTY, G |-> 0, H |-> "", I |-> ""]

\* The sheets of "Al" the commits start from: an empty one, one out of date
\* order, and one with a date that does not parse, an empty date and, before
\* its last row, an amount that is no number.
StoredLedgers ==
    {<<>>,
     recalculate_balance_formulas(
        <<stored_row(DateT(5, 3, 2026), Num(10), EMPTY),
          stored_row(DateT(28, 2, 2026), EMPTY, Num(30))>>),
     recalculate_balance_formulas(
        <<stored_row(DateT(28, 2, 2026), Num(100), EMPTY),
          stored_row(Str("n/a"), Num(50), EMPTY),
          stored_row(EMPTY, EMPTY, Num(7)),
          stored_row(DateT(5, 3, 2026), Str("abc"), EMPTY),
          stored_row(DateT(5, 3, 2026), EMPTY, Num(20))>>)}

\* The monthly summary sheets the commits start from: an empty one and one
\* that disagrees with every ledger.
StoredSummaries ==
    {<<>>,
     <<[employee |-> Str("Al"), month |-> <<3, 2026>>,
        income |-> 999, expense |-> 1, net |-> 998]>>}

StoredDates == {DateT(28, 2, 2026), DateT(1, 3, 2026)}
StoredAmounts == {30, 50}
StoredMonths == {<<2, 2026>>, <<3, 2026>>}

InitStored ==
    /\ InitWizard
    /\ sheets \in {Str("Al") :> rows : rows \in StoredLedgers}
    /\ summary \in StoredSummaries
    /\ audit = <<>>

NextStored ==
    /\ UNCHANGED in_flight
    /\ \E date \in StoredDates, direction \in Directions, amount \in StoredAmounts :
           CommitOperation(date, direction, amount, {})

SpecStored == InitStored /\ [][NextStored]_vars

\* The sum of the amounts of the rows 1..k that are dated in the month and
\* go in the direction.
RECURSIVE period_sum(_, _, _, _)
period_sum(rows, month, direction, k) ==
    IF k = 0 THEN 0
    ELSE period_sum(rows, month, direction, k - 1)
         + (IF /\ split_date(rows[k].A) # None
               /\ <<split_date(rows[k].A)[1][2], split_date(rows[k].A)[1][3]>> = month
               /\ row_operation(rows[k]).direction = direction
            THEN row_operation(rows[k]).amount ELSE 0)

\* C31: get_monthly_summary gives, for a month, the sum of the IN amounts and
\* the sum of the OUT amounts of the rows of the sheet dated in that month, and
\* their difference as net, whatever the monthly summary sheet holds.
C31_SummaryFromLedger ==
    \A month \in StoredMonths :
        get_monthly_summary(AlRows, month) =
            [income |-> period_sum(AlRows, month, "IN", Len(AlRows)),
             expense |-> period_sum(AlRows, month, "OUT", Len(AlRows)),
             net |-> period_sum(AlRows, month, "IN", Len(AlRows))
                       - period_sum(AlRows, month, "OUT", Len(AlRows))]

\* Commits for March 2026 on a ledger whose summary sheet holds other totals
\* for the month.
C31_Witness ==
    /\ Len(audit) >= 2
    /\ get_monthly_summary(AlRows, <<3, 2026>>).income > 0
    /\ get_monthly_summary(AlRows, <<3, 2026>>).expense > 0
    /\ \E k \in 1..Len(summary) :
          /\ summary[k].month = <<3, 2026>>
          /\ summary[k].income # get_monthly_summary(AlRows, <<3, 2026>>).income

----------------------------------------------------------------------------
(* The dispatch of the updates: main builds the Application without
   concurrent_updates, so run_polling hands an update to its handler only
   when the handler of the update before has returned.  A button handler
   starts with "await query.answer()" and goes on with its branch. *)

\* An Application built with concurrent_updates: a second update is handed
\* to its handler while the first handler is still waiting.
can_dispatch_concurrently(flight) == Len(flight) < 2

\* The Application of main takes the next update when no handler is running.
can_dispatch(flight) == flight = <<>>

\* The callback data of the buttons pressed by user 1.
CallbackData ==
    {"add_operation", "op_type_IN", "cancel", "go_back", "rental_add_payment",
     "rental_address_Main_St", "rental_mm_Main_St_12", "confirm_rental_amount",
     "skip_description", "confirm_operation"}

\* button_handler up to "await query.answer()".
Dispatch(u, data) ==
    /\ can_dispatch(in_flight)
    /\ in_flight' = Append(in_flight, [user |-> u, data |-> data])
    /\ UNCHANGED <<user_states, user_contexts, user_data, users, sheets, summary,
                   audit, rental, reference>>

\* The branch of button_handler for the callback data.
button_branch(u, data) ==
    \/ data = "add_operation" /\ ButtonAddOperation(u)
    \/ data = "op_type_IN" /\ ButtonOpType(u, "IN")
    \/ data = "cancel" /\ ButtonCancel(u)
    \/ data = "go_back" /\ ButtonGoBack(u)
    \/ data = "rental_add_payment" /\ ButtonRentalAddPayment(u)
    \/ data = "rental_address_Main_St" /\ ButtonRentalAddress(u, "Main St")
    \/ data = "rental_mm_Main_St_12"
          /\ \E today \in Today : ButtonRentalMM(u, "12", today)
    \/ data = "confirm_rental_amount" /\ ButtonConfirmRentalAmount(u)
    \/ data = "skip_description" /\ ButtonSkipDescription(u)
    \/ data = "confirm_operation"
          /\ \E now \in Today, failures \in {{}, {"insert"}} :
                 ButtonConfirmOperation(u, now, failures)

\* button_handler after "await query.answer()", for the i-th update in flight.
Resume(i) ==
    /\ i \in 1..Len(in_flight)
    /\ button_branch(in_flight[i].user, in_flight[i].data)
    /\ in_flight' = SubSeq(in_flight, 1, i - 1) \o SubSeq(in_flight, i + 1, Len(in_flight))

NextConcurrent ==
    /\ Running
    /\ \/ \E data \in CallbackData : Dispatch(1, data)
       \/ \E i \in 1..Len(in_flight) : Resume(i)

SpecConcurrent == Init /\ [][NextConcurrent]_vars

\* C32: the handlers of two updates of one account are never in progress at
\* the same time, so the steps of one handler (reading the state, changing the
\* context, finding the insertion row, inserting, updating the summary) are
\* never interleaved with those of another.
C32_OneHandlerPerAccount ==
    \A i, j \in 1..Len(in_flight) :
        i # j => in_flight[i].user # in_flight[j].user

\* A "confirm_operation" of user 1 in progress on a complete operation.
C32_Witness ==
    /\ in_flight = <<[user |-> 1, data |-> "confirm_operation"]>>
    /\ user_states[1] = "CONFIRM"
    /\ get_operation_data(user_contexts[1]) # None

----------------------------------------------------------------------------
(* Two accounts: user 1 is registered as "Al", user 2 registers under a name
   of its choice, and both enter operations *)

\* The names user 2 registers under, and an amount.
AccountTexts == {Str("Al"), Str("Bo"), Num(100)}

\* One handler run for user u.
Acts(u) ==
    \/ StartCommand(u)
    \/ ButtonAddOperation(u)
    \/ ButtonCancel(u)
    \/ ButtonOpType(u, "IN")
    \/ \E today \in Today : ButtonDateToday(u, today)
    \/ \E now \in Today : ButtonConfirmOperation(u, now, {})
    \/ \E text \in AccountTexts : MessageHandler(u, text, {})

\* The run is followed up to two writes after the rows it started with.
NextAccounts ==
    /\ UNCHANGED in_flight
    /\ Len(audit) < PriorRows + 2
    /\ \E u \in Users : Acts(u)

SpecAccounts == Init /\ [][NextAccounts]_vars

\* The ledger of a registered user: the rows of the sheet the Users sheet
\* names for it.
ledger_of(u) == sheets[users[u][1].sheet_name]

\* C33: a wizard operation or a commit of one registered account leaves the
\* state, the context and the ledger of every other registered account as
\* they were, also when both are registered under the same name.
C33_AccountsIndependent ==
    [][\A a, b \in Users :
          (/\ a # b
           /\ is_user_registered(a) /\ is_user_registered(b)
           /\ Acts(a))
          => /\ user_states'[b] = user_states[b]
             /\ user_contexts'[b] = user_contexts[b]
             /\ sheets'[users[b][1].sheet_name] = ledger_of(b)]_vars

\* C34: a forward button changes the state or the context only when the
\* user is in the state the button belongs to; pressed in any other state
\* (from a stale menu) it leaves the state and the context as they were.
C34_ForwardOnlyFromState ==
    [][/\ (user_states[1] # "SELECT_OPERATION_TYPE"
             /\ \E direction \in Directions : ButtonOpType(1, direction))
          => UNCHANGED <<user_states, user_contexts>>
       /\ (user_states[1] # "SELECT_DATE"
             /\ \E today \in Today : ButtonDateToday(1, today))
          => UNCHANGED <<user_states, user_contexts>>
       /\ (user_states[1] # "SELECT_CATEGORY"
             /\ \E category \in Categories : ButtonCategory(1, category))
          => UNCHANGED <<user_states, user_contexts>>
       /\ (user_states[1] # "SELECT_TYPE"
             /\ \E type_name \in Types : ButtonType(1, type_name))
          => UNCHANGED <<user_states, user_contexts>>
       /\ (user_states[1] # "SELECT_RENTAL_ADDRESS"
             /\ \E address \in Addresses : ButtonRentalAddress(1, address))
          => UNCHANGED <<user_states, user_contexts>>
       /\ (user_states[1] # "SELECT_RENTAL_MM"
             /\ \E mm_number \in MMNumbers, today \in Today :
                    ButtonRentalMM(1, mm_number, today))
          => UNCHANGED <<user_states, user_contexts>>
       /\ (user_states[1] # "INPUT_DESCRIPTION" /\ ButtonSkipDescription(1))
          => UNCHANGED <<user_states, user_contexts>>
       /\ (user_states[1] # "INPUT_RENTAL_AMOUNT" /\ ButtonConfirmRentalAmount(1))
          => UNCHANGED <<user_states, user_contexts>>]_vars

\* The rows whose date parses and is not later than op_date.
not_later(rows, op_date) ==
    {i \in 1..Len(rows) :
        /\ split_date(rows[i].A) # None
        /\ TupleGeq(op_date, date_tuple(split_date(rows[i].A)[1]))}

\* The rows whose date parses and is later than op_date.
later(rows, op_date) ==
    {i \in 1..Len(rows) :
        /\ split_date(rows[i].A) # None
        /\ TupleGt(date_tuple(split_date(rows[i].A)[1]), op_date)}

\* The largest element of a set of row indices, 0 for the empty set.
last_of(S) == IF S = {} THEN 0 ELSE CHOOSE i \in S : \A j \in S : j <= i

\* The row after which the claim places the new row: the last one of all the
\* rows dated not later than op_date.
last_not_later(rows, op_date) == last_of(not_later(rows, op_date))

\* The row after which the scan places the new row: the last one dated not
\* later than op_date among the rows before the first row dated later.
last_not_later_before_later(rows, op_date) ==
    last_of({i \in not_later(rows, op_date) :
                \A j \in later(rows, op_date) : i < j})

\* The new row of the commit sits right after data row k, and the other rows
\* are the rows that were there, in their order.
inserted_after(k) ==
    /\ Len(sheets'[Str("Al")]) = Len(AlRows) + 1
    /\ sheets'[Str("Al")][k + 1].F = Num(Len(audit) + 1)
    /\ without(entries(sheets'[Str("Al")]), k + 1) = entries(AlRows)

\* C35 as it is stated: a commit inserts the new row right after the last
\* stored row whose date is not later than the date of the new row (at the
\* front if there is none), for any stored rows, in date order or not; rows
\* whose date does not parse are passed over and stay where they are.
C35_AfterLastNotLater ==
    [][\A date \in StoredDates, direction \in Directions, amount \in StoredAmounts :
          CommitOperation(date, direction, amount, {})
          => inserted_after(last_not_later(AlRows, date_tuple(split_date(date)[1])))]_vars

\* C35 as the scan works: a commit inserts the new row right after the last
\* stored row dated not later than the new row among the rows that come
\* before the first stored row dated later (at the front if there is none);
\* rows whose date does not parse are passed over and stay where they are.
C35_AfterLastNotLaterBeforeLater ==
    [][\A date \in StoredDates, direction \in Directions, amount \in StoredAmounts :
          CommitOperation(date, direction, amount, {})
          => inserted_after(last_not_later_before_later(
                                AlRows, date_tuple(split_date(date)[1])))]_vars

\* A row dated 01.03.2026 committed to the sheet that starts with 05.03.2026
\* and 28.02.2026: it is the first row, before the row dated 28.02.2026.
C35_Witness ==
    /\ Len(AlRows) = 3
    /\ AlRows[1].A = DateT(1, 3, 2026) /\ AlRows[1].F = Num(1)
    /\ AlRows[2].A = DateT(5, 3, 2026)
    /\ AlRows[3].A = DateT(28, 2, 2026)

\* An amount cell that holds text which is no number.
malformed(text) == text # EMPTY /\ text.k = "str"

\* The number written in an amount cell, 0 for a cell without a number.
written_amount(text) == IF text.k = "num" THEN text.v ELSE 0

\* The sum of the numbers written in column col ("B" or "C") of the first k
\* rows whose date parses and lies in one of the months.
RECURSIVE column_sum(_, _, _, _)
column_sum(rows, col, months, k) ==
    IF k = 0 THEN 0
    ELSE column_sum(rows, col, months, k - 1)
         + (IF /\ rows[k].A.k = "date"
               /\ <<rows[k].A.m, rows[k].A.y>> \in months
            THEN written_amount(IF col = "B" THEN rows[k].B ELSE rows[k].C)
            ELSE 0)

\* The months of the dates a stored or committed row can carry.
AnyMonth == {<<m, y>> : m \in 1..12, y \in {2025, 2026}}

\* C36: over a sheet with an amount cell that is no number, get_balance gives
\* the incomes minus the expenses of all the other amount cells of the dated
\* rows, and get_monthly_summary the sums of the other amount cells of the
\* month, the rows after the malformed cell included.
C36_MalformedAmountIsZero ==
    (\E k \in 1..Len(AlRows) : malformed(AlRows[k].B) \/ malformed(AlRows[k].C))
    => /\ get_balance_rows(AlRows)
            = column_sum(AlRows, "B", AnyMonth, Len(AlRows))
              - column_sum(AlRows, "C", AnyMonth, Len(AlRows))
       /\ \A month \in StoredMonths :
            /\ get_monthly_summary(AlRows, month).income
                 = column_sum(AlRows, "B", {month}, Len(AlRows))
            /\ get_monthly_summary(AlRows, month).expense
                 = column_sum(AlRows, "C", {month}, Len(AlRows))

\* The sheet with the malformed income cell dated 05.03.2026 after a commit of
\* IN 50 on 01.03.2026: the balance is 100 + 50 - 20 and the income of March
\* is the 50 of the commit.
C36_Witness ==
    /\ \E k \in 1..Len(AlRows) :
          /\ malformed(AlRows[k].B)
          /\ k < Len(AlRows)
          /\ AlRows[k + 1].C = Num(20)
    /\ \E k \in 1..Len(AlRows) :
          AlRows[k].F = Num(1) /\ AlRows[k].A = DateT(1, 3, 2026) /\ AlRows[k].B = Num(50)
    /\ Len(AlRows) = 6
    /\ get_balance_rows(AlRows) = 130
    /\ get_monthly_summary(AlRows, <<3, 2026>>) = [income |-> 50, expense |-> 20, net |-> 30]

----------------------------------------------------------------------------
(* The wizard on a spreadsheet that starts empty, with commits whose update of
   the monthly summary fails, followed past its commits *)

CommitTexts == {DateT(28, 2, 2026), Num(100), Num(30)}
CommitFailures == {{}, {"summary"}}
CommitMonths == {<<2, 2026>>, <<3, 2026>>}

NextCommits ==
    /\ UNCHANGED in_flight
    /\ Len(audit) < MaxRows
    /\ \/ ButtonAddOperation(1)
       \/ \E direction \in Directions : ButtonOpType(1, direction)
       \/ \E today \in Today : ButtonDateToday(1, today)
       \/ \E text \in CommitTexts : MessageHandler(1, text, {})
       \/ \E now \in Today, failures \in CommitFailures :
              ButtonConfirmOperation(1, now, failures)

SpecCommits == InitLedger /\ [][NextCommits]_vars

\* The row of the monthly summary sheet of "Al" for a month as income and
\* expense, zeros when the sheet has no such row.
aggregate(rows, month) ==
    LET k == summary_row_index(rows, Str("Al"), month, 1)
    IN  IF k = 0 THEN [income |-> 0, expense |-> 0]
        ELSE [income |-> rows[k].income, expense |-> rows[k].expense]

\* The monthly summary sheet holds less for the month than the rows of the
\* employee sheet add up to.
lacking(summary_rows, rows, month) ==
    LET stored == aggregate(summary_rows, month)
        read == get_monthly_summary(rows, month)
    IN  /\ stored.income <= read.income
        /\ stored.expense <= read.expense
        /\ stored.income < read.income \/ stored.expense < read.expense

\* The confirm step of user 1 in which the row is inserted and the update of
\* the monthly summary fails.
SummaryFailingConfirmStep ==
    /\ get_operation_data(user_contexts[1]) # None
    /\ \E now \in Today : ButtonConfirmOperation(1, now, {"summary"})

C38_AggregateEqualsSummary ==
    \A month \in CommitMonths :
        LET k == summary_row_index(summary, Str("Al"), month, 1)
            read == get_monthly_summary(AlRows, month)
        IN  /\ k # 0 <=> \E i \in 1..Len(AlRows) :
                            month_str(split_date(AlRows[i].A)[1]) = month
            /\ k # 0 => /\ summary[k].income = read.income
                        /\ summary[k].expense = read.expense
                        /\ summary[k].net = read.net

\* A confirm step of user 1 that commits the operation the wizard assembled.
CommittingConfirmStep ==
    /\ get_operation_data(user_contexts[1]) # None
    /\ \E now \in Today, failures \in CommitFailures :
          ButtonConfirmOperation(1, now, failures)
    /\ Len(audit') = Len(audit) + 1

\* A confirm step of user 1 received right after a committing one, no other
\* input in between: the wizard is as the commit left it.
RepeatedConfirmStep ==
    /\ user_states[1] = "IDLE"
    /\ user_contexts[1] = OperationContext
    /\ \E now \in Today, failures \in CommitFailures :
          ButtonConfirmOperation(1, now, failures)

\* C39: a committing confirm leaves user 1 in IDLE with a fresh context, from
\* which get_operation_data has nothing to hand over; and a confirm received in
\* that situation adds no row, changes no summary row, audit line or rental
\* row, and ends in IDLE with the fresh context.
C39_CommittedOnce ==
    [][/\ CommittingConfirmStep
          => /\ user_states'[1] = "IDLE"
             /\ user_contexts'[1] = OperationContext
             /\ get_operation_data(user_contexts'[1]) = None
       /\ RepeatedConfirmStep
          => /\ UNCHANGED <<sheets, summary, audit, rental>>
             /\ user_states'[1] = "IDLE"
             /\ user_contexts'[1] = OperationContext]_vars

\* One operation was committed and user 1 is where the commit left the wizard:
\* the situation a repeated confirm finds and leaves.
C39_Witness ==
    /\ Len(AlRows) = 1 /\ Len(audit) = 1 /\ Len(summary) = 1
    /\ user_states[1] = "IDLE"
    /\ user_contexts[1] = OperationContext
    /\ get_operation_data(user_contexts[1]) = None

\* A "confirm_operation" of user 1 for a rental payment in which the row is
\* inserted and the update of the rental sheet fails: the store call fails, or
\* the rental sheet has no row for the address and the unit.
RentalUpdateFailingStep ==
    /\ get_operation_data(user_contexts[1]) # None
    /\ truthy(user_contexts[1].rental_address)
    /\ truthy(user_contexts[1].rental_mm)
    /\ \/ \E now \in RentalToday : ButtonConfirmOperation(1, now, {"rental"})
       \/ /\ linked_row = 0
          /\ \E now \in RentalToday : ButtonConfirmOperation(1, now, {})

\* C40: a confirm of a rental payment whose update of the rental sheet fails
\* after the row was inserted ends like a successful one: the sheet has the
\* new row among its old rows, with the address and the unit, the audit log
\* has its line, user 1 is in IDLE with a fresh context, and every rental row,
\* its next payment date included, is as it was.
C40_RentalFailureKeepsCommit ==
    [][RentalUpdateFailingStep
       => LET context == user_contexts[1] IN
          /\ \E k \in 1..Len(sheets'[Str("Al")]) :
                /\ without(entries(sheets'[Str("Al")]), k) = entries(AlRows)
                /\ sheets'[Str("Al")][k].A = context.date[1]
                /\ sheets'[Str("Al")][k].H = context.rental_address[1]
                /\ sheets'[Str("Al")][k].I = context.rental_mm[1]
          /\ Len(audit') = Len(audit) + 1
          /\ user_states'[1] = "IDLE"
          /\ user_contexts'[1] = OperationContext
          /\ rental' = rental]_vars

\* A payment for unit 12 of Main St is in the sheet, user 1 is in IDLE with a
\* fresh context, and the unit has no next payment date, as before.
C40_Witness ==
    /\ \E k \in 1..Len(AlRows) : AlRows[k].H = "Main St" /\ AlRows[k].I = "12"
    /\ Len(audit) = PriorRows + 1
    /\ user_states[1] = "IDLE"
    /\ user_contexts[1] = OperationContext
    /\ rental = PaidRentalRows
    /\ rental[1].next_payment_date = EMPTY

====
